---- MODULE Spec2Model ----
(***************************************************************************)
(* A model of the search index client of server_core                       *)
(* (external_search.py): index and alias management of                     *)
(* ExternalSearchIndex, sequential and by concurrent processes, its bulk   *)
(* synchronisation of works, its queries, and the filters and queries      *)
(* that Filter and Query build.                                            *)
(*                                                                         *)
(* Strings are sequences of one-character strings, so that the name        *)
(* arithmetic of the code (prefixing, suffix stripping) is computed and    *)
(* not assumed.  Python's None (and the empty string, which the code       *)
(* treats alike in its truth tests) is the empty sequence.                 *)
(***************************************************************************)
EXTENDS Integers, Sequences, FiniteSets, TLC

VARIABLES
    indices,      \* backend: the names of the indices that exist
    alias,        \* backend: the indices the works alias is attached to
    docs,         \* backend: index name -> ids of the documents it holds
    bodies,       \* backend: index name -> the body it was created with
    works_index,  \* facade: self.works_index
    works_alias,  \* facade: self.works_alias
    catalog,      \* catalog: work id -> the Work fields bulk_update reads
    procs,        \* processes: process -> its facade and its place in a call
    last          \* the last call: its name, arguments and outcome

vars ==
    <<indices, alias, docs, bodies, works_index, works_alias, catalog, procs,
      last>>

None == <<>>

----------------------------------------------------------------------------
(* Strings                                                                 *)

Digits == <<"0", "1", "2", "3", "4", "5", "6", "7", "8", "9">>

IsDigit(c) == \E i \in 1..Len(Digits) : Digits[i] = c

DigitValue(c) == (CHOOSE i \in 1..Len(Digits) : Digits[i] = c) - 1

\* int(s) of a string of digits
RECURSIVE StrToInt(_)
StrToInt(s) ==
    IF s = <<>> THEN 0
    ELSE 10 * StrToInt(SubSeq(s, 1, Len(s) - 1)) + DigitValue(s[Len(s)])

\* '%d' % n for n >= 0
RECURSIVE IntToStr(_)
IntToStr(n) ==
    IF n < 10 THEN <<Digits[n + 1]>>
    ELSE IntToStr(n \div 10) \o <<Digits[(n % 10) + 1]>>

EndsWith(s, suffix) ==
    /\ Len(s) >= Len(suffix)
    /\ SubSeq(s, Len(s) - Len(suffix) + 1, Len(s)) = suffix

StartsWith(s, prefix) ==
    /\ Len(s) >= Len(prefix)
    /\ SubSeq(s, 1, Len(prefix)) = prefix

DropLast(s, n) == SubSeq(s, 1, Len(s) - n)

\* the length of the longest run of digits that ends the string
RECURSIVE TrailingDigits(_)
TrailingDigits(s) ==
    IF s = <<>> \/ ~IsDigit(s[Len(s)]) THEN 0
    ELSE 1 + TrailingDigits(DropLast(s, 1))

----------------------------------------------------------------------------
(* Names: ExternalSearchIndex and ExternalSearchIndexVersions              *)

CURRENT_ALIAS_SUFFIX == <<"c", "u", "r", "r", "e", "n", "t">>

VERSIONS == << <<"v", "2">>, <<"v", "3">> >>

\* the index prefix the search integration is configured with
ConfiguredPrefix == <<"w">>

\* the prefix of another application on the same backend
OtherPrefix == <<"x">>

\* re.match('v(\d+)', v).groups()[0] as an int
VersionNumber(v) ==
    LET rest == SubSeq(v, 2, Len(v))
        n == CHOOSE k \in 0..Len(rest) :
                 /\ \A i \in 1..k : IsDigit(rest[i])
                 /\ (k = Len(rest) \/ ~IsDigit(rest[k + 1]))
    IN  StrToInt(SubSeq(rest, 1, n))

latest ==
    LET versions == {VersionNumber(VERSIONS[i]) : i \in 1..Len(VERSIONS)}
        top == CHOOSE n \in versions : \A m \in versions : m <= n
    IN  <<"v">> \o IntToStr(top)

\* latest_body(): the body of the latest version; a body is named by its
\* version
latest_body == latest

works_prefixed(value) == ConfiguredPrefix \o <<"-">> \o value

works_index_name == works_prefixed(latest)

works_alias_name == works_prefixed(CURRENT_ALIAS_SUFFIX)

\* re.sub('current$', '', s), then re.sub('-v([0-9]+)$', '', s)
base_index_name(index_or_alias) ==
    LET s1 == IF EndsWith(index_or_alias, CURRENT_ALIAS_SUFFIX)
              THEN DropLast(index_or_alias, Len(CURRENT_ALIAS_SUFFIX))
              ELSE index_or_alias
        k == TrailingDigits(s1)
    IN  IF k >= 1 /\ EndsWith(DropLast(s1, k), <<"-", "v">>)
        THEN DropLast(s1, k + 2)
        ELSE s1

----------------------------------------------------------------------------
(* The backend: the primitive operations of the Elasticsearch client.  A   *)
(* state s is a record of the backend's indices, alias and docs, of the    *)
(* facade's works_index and works_alias, and of whether the call raised.   *)

\* the index names of the model: both schema versions, under both prefixes
IndexNames ==
    {p \o <<"-">> \o VERSIONS[i] : p \in {ConfiguredPrefix, OtherPrefix},
                                   i \in 1..Len(VERSIONS)}

\* put_alias answers {"acknowledged": true}, answers without acknowledging
\* (the alias is then attached or not), or raises
PutAliasOutcomes ==
    {"acknowledged", "unacknowledged", "unacknowledged_applied", "exception"}

DeleteAliasOutcomes == {"ok", "exception"}

Raise(s) == [s EXCEPT !.raised = TRUE]

\* the call is added to the alias changes the facade has asked for
Called(s, call) == [s EXCEPT !.calls = Append(@, call)]

\* indices.exists(index)
indices_exists(s, index) == index \in s.indices

\* indices.exists_alias(name=alias_name); without an index (index None) the
\* backend looks on every index
exists_alias(s, index) ==
    IF index = None THEN s.alias # {} ELSE index \in s.alias

\* indices.get_alias(index, name=alias_name): empty when not attached there
get_alias(s, index) == s.alias \cap {index}

\* indices.put_alias(index, name=alias_name)
put_alias(s, index, outcome) ==
    LET s1 == Called(s, "put_alias")
    IN  IF outcome = "exception" THEN Raise(s1)
        ELSE IF outcome \in {"acknowledged", "unacknowledged_applied"}
        THEN [s1 EXCEPT !.alias = @ \cup {index}]
        ELSE s1

\* indices.delete_alias(index='_all', name=alias_name)
delete_alias(s, outcome) ==
    LET s1 == Called(s, "delete_alias")
    IN  IF outcome = "exception" THEN Raise(s1)
        ELSE [s1 EXCEPT !.alias = {}]

\* indices.delete(index): the index goes with its documents, its body and
\* its aliases
indices_delete(s, index) ==
    [s EXCEPT !.indices = @ \ {index},
              !.alias = @ \ {index},
              !.docs = [@ EXCEPT ![index] = {}],
              !.bodies = [@ EXCEPT ![index] = None]]

\* indices.create(index, body)
indices_create(s, index, body) ==
    [s EXCEPT !.indices = @ \cup {index},
              !.docs = [@ EXCEPT ![index] = {}],
              !.bodies = [@ EXCEPT ![index] = body]]

----------------------------------------------------------------------------
(* ExternalSearchIndex: index and alias management                         *)

\* setup_current_alias, moving an alias that is on another index onto
\* works_index
setup_current_alias_steals(s, put_outcome) ==
    LET alias_name == works_alias_name
    IN  IF exists_alias(s, None) /\ exists_alias(s, s.works_index)
        THEN [s EXCEPT !.works_alias = alias_name]
        ELSE LET s1 == put_alias(s, s.works_index, put_outcome)
             IN  IF s1.raised THEN s1
                 ELSE IF put_outcome # "acknowledged"
                 THEN [s1 EXCEPT !.works_alias = s.works_index]
                 ELSE [s1 EXCEPT !.works_alias = alias_name]

\* setup_current_alias, taking the alias for created whatever put_alias
\* answered
setup_current_alias_trusts_put(s, put_outcome) ==
    LET alias_name == works_alias_name
        exists == exists_alias(s, None)
    IN  IF exists
        THEN IF exists_alias(s, s.works_index)
             THEN [s EXCEPT !.works_alias = alias_name]
             ELSE [s EXCEPT !.works_alias = s.works_index]
        ELSE LET s1 == put_alias(s, s.works_index, put_outcome)
             IN  IF s1.raised THEN s1
                 ELSE [s1 EXCEPT !.works_alias = alias_name]

setup_current_alias(s, put_outcome) ==
    LET alias_name == works_alias_name
        exists == exists_alias(s, None)
    IN  IF exists
        THEN IF exists_alias(s, s.works_index)
             THEN [s EXCEPT !.works_alias = alias_name]
             ELSE [s EXCEPT !.works_alias = s.works_index]
        ELSE LET s1 == put_alias(s, s.works_index, put_outcome)
             IN  IF s1.raised THEN s1
                 ELSE IF put_outcome # "acknowledged"
                 THEN [s1 EXCEPT !.works_alias = s.works_index]
                 ELSE [s1 EXCEPT !.works_alias = alias_name]

setup_index(s, new_index) ==
    LET index == IF new_index # None THEN new_index ELSE s.works_index
        s1 == IF indices_exists(s, index) THEN indices_delete(s, index) ELSE s
    IN  IF index = None THEN Raise(s)
        ELSE indices_create(s1, index, latest_body)

\* set_works_index_and_alias, setting its index up whether it exists or not
set_works_index_and_alias_recreates(s, put_outcome) ==
    LET s1 == [s EXCEPT !.works_index = works_index_name]
    IN  setup_current_alias(setup_index(s1, None), put_outcome)

set_works_index_and_alias(s, put_outcome) ==
    LET s1 == [s EXCEPT !.works_index = works_index_name]
        s2 == IF ~indices_exists(s1, s1.works_index)
              THEN setup_index(s1, None)
              ELSE s1
    IN  setup_current_alias(s2, put_outcome)

\* __init__(_db, url, works_index) with a database and a search integration
\* that has a URL; url_given says whether the url argument was passed
init(s, url_given, works_index_arg, put_outcome) ==
    LET s0 == [s EXCEPT !.works_index = None, !.works_alias = None]
        integration == ~url_given \/ works_index_arg = None
        local_works_index == IF works_index_arg = None
                             THEN works_index_name
                             ELSE works_index_arg
    IN  IF local_works_index # None /\ integration
        THEN set_works_index_and_alias(s0, put_outcome)
        ELSE s0

\* the alias changes of transfer_current_alias once new_index is validated
\* and assigned
move_alias(s1, delete_outcome, put_outcome) ==
    LET alias_name == works_alias_name
    IN  IF ~exists_alias(s1, None)
        THEN setup_current_alias(s1, put_outcome)
        ELSE IF get_alias(s1, s1.works_index) = {}
        THEN LET s2 == delete_alias(s1, delete_outcome)
                 s3 == put_alias(s2, s1.works_index, put_outcome)
             IN  IF s2.raised THEN s2
                 ELSE IF s3.raised THEN s3
                 ELSE [s3 EXCEPT !.works_alias = alias_name]
        ELSE [s1 EXCEPT !.works_alias = alias_name]

\* transfer_current_alias, assigning works_index before it validates
transfer_current_alias_assigns_first(s, new_index, delete_outcome, put_outcome) ==
    LET s1 == [s EXCEPT !.works_index = new_index]
    IN  IF ~indices_exists(s, new_index) THEN Raise(s1)
        ELSE IF s.works_index = None THEN Raise(s1)
        ELSE IF base_index_name(new_index) # base_index_name(s.works_index)
        THEN Raise(s1)
        ELSE move_alias(s1, delete_outcome, put_outcome)

\* transfer_current_alias, leaving the alias on the indices it was on
transfer_current_alias_keeps_old(s, new_index, delete_outcome, put_outcome) ==
    IF ~indices_exists(s, new_index) THEN Raise(s)
    ELSE IF s.works_index = None THEN Raise(s)
    ELSE IF base_index_name(new_index) # base_index_name(s.works_index)
    THEN Raise(s)
    ELSE
    LET s1 == [s EXCEPT !.works_index = new_index]
        alias_name == works_alias_name
    IN  IF ~exists_alias(s1, None)
        THEN setup_current_alias(s1, put_outcome)
        ELSE IF get_alias(s1, s1.works_index) = {}
        THEN LET s3 == put_alias(Called(s1, "delete_alias"), s1.works_index,
                                 put_outcome)
             IN  IF delete_outcome = "exception"
                 THEN Raise(Called(s1, "delete_alias"))
                 ELSE IF s3.raised THEN s3
                 ELSE [s3 EXCEPT !.works_alias = alias_name]
        ELSE [s1 EXCEPT !.works_alias = alias_name]

transfer_current_alias(s, new_index, delete_outcome, put_outcome) ==
    IF ~indices_exists(s, new_index) THEN Raise(s)
    \* re.sub on a works_index of None raises TypeError
    ELSE IF s.works_index = None THEN Raise(s)
    ELSE IF base_index_name(new_index) # base_index_name(s.works_index)
    THEN Raise(s)
    ELSE move_alias([s EXCEPT !.works_index = new_index],
                    delete_outcome, put_outcome)

\* create_new_version(search_client, base_index_name, version): the state,
\* and the boolean the call returns
create_new_version(s, base, version) ==
    LET v1 == IF version = None THEN latest ELSE version
        v2 == IF ~StartsWith(v1, <<"v">>) THEN <<"v">> \o v1 ELSE v1
        versioned_index == base \o <<"-">> \o v2
    IN  IF indices_exists(s, versioned_index)
        THEN [state |-> s, created |-> FALSE]
        ELSE [state |-> setup_index(s, versioned_index), created |-> TRUE]

----------------------------------------------------------------------------
(* ExternalSearchIndex: bulk synchronisation.  A work is its id; cat is    *)
(* the catalog, work id -> [presentation_ready, presentation_edition].     *)

\* Python's None where a work or a document id is expected
NoWork == 0

\* the reason bulk_update gives for a work that has no document
WorkNotIndexed ==
    <<"W", "o", "r", "k", " ", "n", "o", "t", " ",
      "i", "n", "d", "e", "x", "e", "d">>

\* the message the backend gives when it rejects the document of an id
ErrorMessage(id) == <<"r", "e", "j", "e", "c", "t", "e", "d", " ">> \o IntToStr(id)

\* the two shapes of an error of the bulk helper: the failed action at the
\* top, or the backend's answer under the name of the operation
ErrorShapes == {"data", "index"}

ErrorItem(shape, id) ==
    IF shape = "data"
    THEN [data |-> [_id |-> id], error |-> ErrorMessage(id),
          exception |-> <<"E">>]
    ELSE [index |-> [_id |-> id, error |-> ErrorMessage(id)]]

\* dict.get(key, default)
Get(dict, key, default) == IF key \in DOMAIN dict THEN dict[key] ELSE default

\* the empty dict
EmptyDict == <<>>

\* [x[field] for x in seq]
Ids(seq) == [i \in 1..Len(seq) |-> seq[i]._id]

Range(seq) == {seq[i] : i \in 1..Len(seq)}

\* a set of ids in ascending order
RECURSIVE Ordered(_)
Ordered(ids) ==
    IF ids = {} THEN <<>>
    ELSE LET least == CHOOSE i \in ids : \A j \in ids : i <= j
         IN  <<least>> \o Ordered(ids \ {least})

\* the titles a work can have: what of a work its document shows
Titles == {<<"a">>, <<"b">>}

\* the ids of a set of documents
DocIds(documents) == {d._id : d \in documents}

\* the documents of a set other than those of an id
Without(documents, id) == {d \in documents : d._id # id}

remove_work(s, work) ==
    IF work \in DocIds(s.docs[s.works_index])
    THEN [s EXCEPT !.docs = [@ EXCEPT ![s.works_index] = Without(@, work)]]
    ELSE s

\* Work.to_search_documents(works): one document for each work that joins
\* to a presentation edition.  The query states no order; the documents are
\* taken in the order of the batch, and nothing below reads their order.
to_search_documents(cat, works) ==
    IF works = <<>> THEN <<>>
    ELSE LET found == SelectSeq(works, LAMBDA w : cat[w].presentation_edition)
         IN  [i \in 1..Len(found) |->
                 [_id |-> found[i], title |-> cat[found[i]].title]]

\* the bulk write, adding each document next to the documents of its id
RECURSIVE bulk_adding_documents(_, _, _, _)
bulk_adding_documents(s, documents, rejected, shape) ==
    IF documents = <<>>
    THEN [state |-> s, success_count |-> 0, errors |-> <<>>]
    ELSE LET doc == Head(documents)
             failed == doc._id \in rejected
             s1 == IF failed THEN s
                   ELSE [s EXCEPT !.docs =
                            [@ EXCEPT ![doc._index] =
                                @ \cup {[_id |-> doc._id,
                                         title |-> doc.title]}]]
             rest == bulk_adding_documents(s1, Tail(documents), rejected,
                                           shape)
         IN  [state |-> rest.state,
              success_count |-> rest.success_count + (IF failed THEN 0 ELSE 1),
              errors |-> (IF failed THEN <<ErrorItem(shape, doc._id)>>
                          ELSE <<>>) \o rest.errors]

\* self.bulk(docs, raise_on_error=False, raise_on_exception=False) on a
\* backend that rejects the documents of the ids in rejected: the accepted
\* documents are written, each in the place of the document of its id; the
\* count of successes and the errors return
RECURSIVE bulk(_, _, _, _)
bulk(s, documents, rejected, shape) ==
    IF documents = <<>>
    THEN [state |-> s, success_count |-> 0, errors |-> <<>>]
    ELSE LET doc == Head(documents)
             failed == doc._id \in rejected
             s1 == IF failed THEN s
                   ELSE [s EXCEPT !.docs =
                            [@ EXCEPT ![doc._index] =
                                Without(@, doc._id)
                                    \cup {[_id |-> doc._id,
                                           title |-> doc.title]}]]
             rest == bulk(s1, Tail(documents), rejected, shape)
         IN  [state |-> rest.state,
              success_count |-> rest.success_count + (IF failed THEN 0 ELSE 1),
              errors |-> (IF failed THEN <<ErrorItem(shape, doc._id)>>
                          ELSE <<>>) \o rest.errors]

\* get_error_id, reading the failed action only
get_error_id_data_only(error) ==
    Get(Get(error, "data", EmptyDict), "_id", NoWork)

get_error_id(error) ==
    LET from_data == Get(Get(error, "data", EmptyDict), "_id", NoWork)
    IN  IF from_data # NoWork THEN from_data
        ELSE Get(Get(error, "index", EmptyDict), "_id", NoWork)

\* the retry test, retrying whenever a document failed
batch_failed_on_any_error(errors, documents) == Len(errors) > 0

\* len(errors) == len(docs)
batch_failed(errors, documents) == Len(errors) = Len(documents)

\* the partition of the batch: the works to add, and the works to remove
needs_add_of(cat, works) ==
    SelectSeq(works, LAMBDA w : cat[w].presentation_ready)

not_ready_of(cat, works) ==
    SelectSeq(works, LAMBDA w : ~cat[w].presentation_ready)

RECURSIVE remove_works(_, _)
remove_works(s, works) ==
    IF works = <<>> THEN s
    ELSE remove_works(remove_work(s, Head(works)), Tail(works))

missing_works_of(works, doc_ids, error_ids, successes) ==
    SelectSeq(works, LAMBDA w : /\ w \notin Range(doc_ids)
                                /\ w \notin Range(error_ids)
                                /\ w \notin Range(successes))

\* the works successes.extend adds, not looking at the errors
added_successes_ignoring_errors(works, doc_ids, error_ids) ==
    SelectSeq(works, LAMBDA w : w \in Range(doc_ids))

added_successes(works, doc_ids, error_ids) ==
    SelectSeq(works, LAMBDA w : /\ w \in Range(doc_ids)
                                /\ w \notin Range(error_ids))

\* the value of the name work once a comprehension over works has run:
\* in Python 2 (the module's "except E, e" is Python 2 only) the
\* comprehension's variable outlives it, bound to the last work
leaked_work(works, before) ==
    IF works = <<>> THEN before ELSE works[Len(works)]

\* the message of an error, read at the top of the error only
error_message_top_only(error) == Get(error, "error", None)

error_message_of(error) ==
    LET error_message == Get(error, "error", None)
    IN  IF error_message = None
        THEN Get(Get(error, "index", EmptyDict), "error", None)
        ELSE error_message

\* the failures list: an entry for each missing work, then for each error
failures_of(works, missing_works, errors) ==
    LET work == leaked_work(works, NoWork)
        for_missing == [i \in 1..Len(missing_works) |->
                            <<work, WorkNotIndexed>>]
        for_error(error) ==
            LET error_id == get_error_id(error)
                works_with_error == SelectSeq(works, LAMBDA w : w = error_id)
                found == IF works_with_error # <<>>
                         THEN works_with_error[1]
                         ELSE leaked_work(works, NoWork)
            IN  <<found, error_message_of(error)>>
    IN  for_missing \o [i \in 1..Len(errors) |-> for_error(errors[i])]

\* bulk_update(works, retry_on_batch_failure); outcomes are the backend's
\* answers to the bulk writes, in order.  Returns the state, the successes
\* and failures, and the record of the bulk writes made (attempts).
RECURSIVE bulk_update(_, _, _, _, _)
bulk_update(s, cat, works, retry_on_batch_failure, outcomes) ==
    LET needs_add == needs_add_of(cat, works)
        removed == not_ready_of(cat, works)
        s1 == remove_works(s, removed)
        successes == removed
        found == to_search_documents(cat, needs_add)
        documents == [i \in 1..Len(found) |->
                         [_id |-> found[i]._id, title |-> found[i].title,
                          _index |-> s.works_index]]
        outcome == Head(outcomes)
        written == bulk(s1, documents, outcome.rejected, outcome.shape)
        errors == written.errors
        attempt == [works |-> works, removed |-> removed,
                    serialized |-> needs_add, docs |-> Ids(documents),
                    rejected |-> outcome.rejected \cap Range(Ids(documents))]
    IN  IF batch_failed(errors, documents) /\ retry_on_batch_failure
        THEN LET again == bulk_update(written.state, cat, needs_add, FALSE,
                                      Tail(outcomes))
             IN  [again EXCEPT !.attempts = <<attempt>> \o @]
        ELSE LET docs_left == IF batch_failed(errors, documents)
                              THEN <<>> ELSE documents
                 doc_ids == Ids(docs_left)
                 error_ids == [i \in 1..Len(errors) |-> get_error_id(errors[i])]
                 missing_works ==
                     missing_works_of(works, doc_ids, error_ids, successes)
             IN  [state |-> written.state,
                  successes |-> successes
                      \o added_successes(works, doc_ids, error_ids),
                  failures |-> failures_of(works, missing_works, errors),
                  attempts |-> <<attempt>>]

----------------------------------------------------------------------------
(* The catalog's side of synchronisation.  A work of the catalog has, next *)
(* to its presentation, the status of its WorkCoverageRecord for the       *)
(* update-search-index operation (coverage): the sync marker.              *)

\* the statuses of a coverage record: the work is to be synchronised, it
\* has been, or the last attempt failed
CoverageStatuses == {"registered", "success", "transient failure"}

\* Work._reset_coverage for the operation of the search index
external_index_needs_updating(cat, work) ==
    [cat EXCEPT ![work].coverage = "registered"]

set_presentation_ready(cat, work) ==
    external_index_needs_updating(
        [cat EXCEPT ![work].presentation_ready = TRUE], work)

\* license_pools, title and language tell whether the work has any
set_presentation_ready_based_on_content(cat, work, license_pools, title, language) ==
    IF \/ ~cat[work].presentation_edition
       \/ ~license_pools
       \/ ~title
       \/ ~language
    THEN external_index_needs_updating(
             [cat EXCEPT ![work].presentation_ready = FALSE], work)
    ELSE set_presentation_ready(cat, work)

\* WorkCoverageRecord.bulk_add(works, operation): the record of each work
\* is set to success
RECURSIVE bulk_add(_, _)
bulk_add(cat, works) ==
    IF works = <<>> THEN cat
    ELSE bulk_add([cat EXCEPT ![Head(works)].coverage = "success"],
                  Tail(works))

\* SearchIndexMonitor.process_batch, on the batch fetch_batch gave it
monitor_process_batch(s, cat, batch, outcomes) ==
    IF batch # <<>>
    THEN LET updated == bulk_update(s, cat, batch, TRUE, outcomes)
         IN  [state |-> updated.state,
              catalog |-> bulk_add(cat, updated.successes),
              successes |-> updated.successes,
              failures |-> updated.failures,
              attempts |-> updated.attempts,
              result |-> batch[Len(batch)]]
    ELSE [state |-> s, catalog |-> cat, successes |-> <<>>,
          failures |-> <<>>, attempts |-> <<>>, result |-> 0]

\* CoverageFailure(work, error)
CoverageFailure(failure) ==
    [obj |-> failure[1], exception |-> failure[2], failure |-> TRUE]

\* SearchIndexCoverageProvider.process_batch: the successes as they are,
\* then a CoverageFailure for each failure
process_batch(s, cat, works, outcomes) ==
    LET updated == bulk_update(s, cat, works, TRUE, outcomes)
        records == [i \in 1..Len(updated.successes) |->
                       [obj |-> updated.successes[i], failure |-> FALSE]]
    IN  [state |-> updated.state,
         records |-> records
             \o [i \in 1..Len(updated.failures) |->
                    CoverageFailure(updated.failures[i])],
         successes |-> updated.successes,
         failures |-> updated.failures]

\* what the provider does with the records of process_batch, in their
\* order: a work is recorded as a success, a CoverageFailure as a transient
\* failure of its work; a work of the batch without a record keeps its own
RECURSIVE handle_results(_, _)
handle_results(cat, records) ==
    IF records = <<>> THEN cat
    ELSE LET record == Head(records)
             status == IF record.failure THEN "transient failure"
                       ELSE "success"
         IN  handle_results(
                 IF record.obj \in DOMAIN cat
                 THEN [cat EXCEPT ![record.obj].coverage = status]
                 ELSE cat,
                 Tail(records))

\* the works the provider is given: those whose record is not a success,
\* by id
items_that_need_coverage(cat) ==
    Ordered({w \in DOMAIN cat : cat[w].coverage # "success"})

----------------------------------------------------------------------------
(* ExternalSearchIndex: queries.  A page is [offset, size]; the backend is  *)
(* "up", or "down" and raises on every request it receives.                *)

\* Search(using=client) names no index: the request goes to every index
AllIndices == <<"_", "a", "l", "l">>

\* the hits of a search on an index, an alias or every index, each with
\* its meta['id']
hits_of(s, index) ==
    LET searched == IF index = AllIndices THEN s.indices
                    ELSE IF index = works_alias_name THEN s.alias
                    ELSE s.indices \cap {index}
        ids == Ordered(DocIds(UNION {s.docs[i] : i \in searched}))
    IN  [k \in 1..Len(ids) |-> [meta |-> [id |-> IntToStr(ids[k])]]]

\* search[start:stop]: the hits in positions start..stop-1
Slice(seq, start, stop) ==
    SubSeq(seq, start + 1, IF stop < Len(seq) THEN stop ELSE Len(seq))

\* whether the local variable fields is bound when line 295 reads it: its
\* only assignments are below, in the branches on debug
fields_bound == FALSE

\* query_works, sending its search before it looks at works_alias
query_works_searches_first(s, query_string, filter, pagination, debug, backend) ==
    LET start == pagination.offset
        stop == start + pagination.size
        request == [index |-> AllIndices, start |-> start, stop |-> stop]
    IN  IF backend = "down"
        THEN [state |-> Raise(s), result |-> <<>>, requests |-> <<request>>]
        ELSE [state |-> s, result |-> <<>>, requests |-> <<request>>]

\* query_works(query_string, filter, pagination, debug): the state, the
\* list returned, and the search requests sent to the backend
query_works(s, query_string, filter, pagination, debug, backend) ==
    IF s.works_alias = None
    THEN [state |-> s, result |-> <<>>, requests |-> <<>>]
    ELSE IF ~fields_bound
    THEN [state |-> Raise(s), result |-> <<>>, requests |-> <<>>]
    ELSE LET start == pagination.offset
             stop == start + pagination.size
             request == [index |-> AllIndices, start |-> start,
                         stop |-> stop]
             results == Slice(hits_of(s, request.index), start, stop)
         IN  IF backend = "down"
             THEN [state |-> Raise(s), result |-> <<>>,
                   requests |-> <<request>>]
             ELSE [state |-> s,
                   result |-> [k \in 1..Len(results) |->
                                  StrToInt(results[k].meta.id)],
                   requests |-> <<request>>]

----------------------------------------------------------------------------
(* Filter.  A list that may be None is [is_none, items]: Python tells None *)
(* from the empty list, and so does the model.  An Elasticsearch filter is *)
(* a record named by its op; no filter at all (Python's None) is NoFilter. *)
(* A document is a function from its field names to the sets of values it  *)
(* holds there; a field without a value holds the empty set.               *)

NoneList == [is_none |-> TRUE, items |-> <<>>]

ListOf(items) == [is_none |-> FALSE, items |-> items]

\* Python's truth test of a list that may be None
Truthy(list) == ~list.is_none /\ list.items # <<>>

\* an age bound that is None
NoAge == -1

NoTargetAge == [kind |-> "none"]

TargetAgeTuple(lower, upper) ==
    [kind |-> "tuple", lower |-> lower, upper |-> upper]

TargetAgeInt(n) == [kind |-> "int", value |-> n]

NoFilter == [op |-> "none"]

UpperLetters ==
    <<"A", "B", "C", "D", "E", "F", "G", "H", "I", "J", "K", "L", "M",
      "N", "O", "P", "Q", "R", "S", "T", "U", "V", "W", "X", "Y", "Z">>

LowerLetters ==
    <<"a", "b", "c", "d", "e", "f", "g", "h", "i", "j", "k", "l", "m",
      "n", "o", "p", "q", "r", "s", "t", "u", "v", "w", "x", "y", "z">>

\* str.lower() on one character
LowerChar(c) ==
    IF \E i \in 1..Len(UpperLetters) : UpperLetters[i] = c
    THEN LowerLetters[CHOOSE i \in 1..Len(UpperLetters) : UpperLetters[i] = c]
    ELSE c

Lower(s) == [i \in 1..Len(s) |-> LowerChar(s[i])]

\* _scrub(s): lower case, without spaces
_scrub(s) == SelectSeq(Lower(s), LAMBDA c : c # " ")

\* _scrub_list(s), of None or of a list of strings
_scrub_list(s) ==
    IF s.is_none THEN <<>>
    ELSE [i \in 1..Len(s.items) |-> _scrub(s.items[i])]

\* _filter_ids(ids), of None or of a list of ids
_filter_ids(ids) ==
    IF ids.is_none THEN NoneList ELSE ListOf(ids.items)

\* existing & new
_chain_filters(existing, new) ==
    IF existing.op # "none"
    THEN [op |-> "and", filters |-> <<existing, new>>]
    ELSE new

\* _match_op(field, operation, value)
_match_op(field, operation, value) ==
    [op |-> "range", field |-> field, operation |-> operation,
     value |-> value]

does_not_exist(field) ==
    [op |-> "bool", must_not |-> <<[op |-> "exists", field |-> field]>>]

or_does_not_exist(clause, field) ==
    [op |-> "or", filters |-> <<clause, does_not_exist(field)>>]

\* Filter.__init__: the target_age it stores for its argument, None, an
\* int or a pair
init_target_age(target_age) ==
    LET truthy == CASE target_age.kind = "none" -> FALSE
                  [] target_age.kind = "int" -> target_age.value # 0
                  [] target_age.kind = "tuple" -> TRUE
    IN  IF truthy
        THEN IF target_age.kind = "int"
             THEN TargetAgeTuple(target_age.value, target_age.value)
             ELSE target_age
        ELSE NoTargetAge

\* Filter.__init__: the restriction sets it stores for its argument
init_restriction_sets(sets) ==
    IF Truthy(sets)
    THEN [i \in 1..Len(sets.items) |-> _filter_ids(sets.items[i])]
    ELSE <<>>

\* Filter(collections, media, languages, fiction, audiences, target_age,
\* genre_restriction_sets, customlist_restriction_sets), the arguments in
\* a record
Filter(args) ==
    [collection_ids |-> _filter_ids(args.collections),
     media |-> args.media,
     languages |-> args.languages,
     fiction |-> args.fiction,
     audiences |-> args.audiences,
     target_age |-> init_target_age(args.target_age),
     genre_restriction_sets |->
         init_restriction_sets(args.genre_restriction_sets),
     customlist_restriction_sets |->
         init_restriction_sets(args.customlist_restriction_sets)]

\* target_age_filter, with one clause when both bounds are given: the
\* stored lower bound against the upper bound asked for
target_age_filter_lower_only(self) ==
    IF self.target_age.kind = "none" THEN NoFilter
    ELSE IF self.target_age.upper = NoAge THEN NoFilter
    ELSE or_does_not_exist(
             _match_op("target_age.lower", "lte", self.target_age.upper),
             "target_age.lower")

\* the property target_age_filter of a Filter
target_age_filter(self) ==
    IF self.target_age.kind = "none" THEN NoFilter
    ELSE
    LET lower == self.target_age.lower
        upper == self.target_age.upper
        lower_match ==
            or_does_not_exist(_match_op("target_age.lower", "lte", upper),
                              "target_age.lower")
        upper_match ==
            or_does_not_exist(_match_op("target_age.upper", "gte", lower),
                              "target_age.upper")
        clauses == (IF upper # NoAge THEN <<lower_match>> ELSE <<>>) \o
                   (IF lower # NoAge THEN <<upper_match>> ELSE <<>>)
    IN  IF lower = NoAge /\ upper = NoAge THEN NoFilter
        ELSE IF clauses = <<>> THEN NoFilter
        ELSE IF Len(clauses) = 1 THEN clauses[1]
        ELSE [op |-> "and", filters |-> clauses]

\* the terms filters of a list of restriction sets, chained onto f
RECURSIVE chain_restriction_sets(_, _, _)
chain_restriction_sets(f, field, sets) ==
    IF sets = <<>> THEN f
    ELSE chain_restriction_sets(
             _chain_filters(f, [op |-> "terms", field |-> field,
                                values |-> _filter_ids(Head(sets))]),
             field, Tail(sets))

\* Filter.build().  F(collection_id=ids) is read as the filter of the
\* documents whose collection_id is one of ids.
build(self) ==
    LET collection_ids == _filter_ids(self.collection_ids)
        f1 == IF Truthy(collection_ids)
              THEN _chain_filters(NoFilter,
                       [op |-> "terms", field |-> "collection_id",
                        values |-> _filter_ids(collection_ids)])
              ELSE NoFilter
        f2 == IF Truthy(self.media)
              THEN _chain_filters(f1,
                       [op |-> "terms", field |-> "medium",
                        values |-> ListOf(_scrub_list(self.media))])
              ELSE f1
        f3 == IF Truthy(self.languages)
              THEN _chain_filters(f2,
                       [op |-> "terms", field |-> "language",
                        values |-> ListOf(_scrub_list(self.languages))])
              ELSE f2
        f4 == IF self.fiction # "None"
              THEN _chain_filters(f3,
                       [op |-> "term", field |-> "fiction",
                        value |-> IF self.fiction = "True"
                                  THEN <<"f", "i", "c", "t", "i", "o", "n">>
                                  ELSE <<"n", "o", "n", "f", "i", "c", "t", "i", "o", "n">>])
              ELSE f3
        f5 == IF Truthy(self.audiences)
              THEN _chain_filters(f4,
                       [op |-> "terms", field |-> "audience",
                        values |-> ListOf(_scrub_list(self.audiences))])
              ELSE f4
        f6 == IF target_age_filter(self).op # "none"
              THEN _chain_filters(f5, target_age_filter(self))
              ELSE f5
        f7 == chain_restriction_sets(f6, "genres.term",
                                     self.genre_restriction_sets)
    IN  chain_restriction_sets(f7, "list_id",
                               self.customlist_restriction_sets)

\* whether the backend selects the document with the filter: a range and
\* an exists filter look at the values of the field, a term filter wants
\* its value in the field and a terms filter one of its values (it
\* selects nothing without values)
RECURSIVE Matches(_, _)
Matches(f, doc) ==
    CASE f.op = "none" -> TRUE
      [] f.op = "range" ->
             \E v \in doc[f.field] :
                 IF f.operation = "lte" THEN v <= f.value ELSE v >= f.value
      [] f.op = "exists" -> doc[f.field] # {}
      [] f.op = "term" -> f.value \in doc[f.field]
      [] f.op = "terms" ->
             \E i \in 1..Len(f.values.items) :
                 f.values.items[i] \in doc[f.field]
      [] f.op = "bool" ->
             \A i \in 1..Len(f.must_not) : ~Matches(f.must_not[i], doc)
      [] f.op = "or" ->
             \E i \in 1..Len(f.filters) : Matches(f.filters[i], doc)
      [] f.op = "and" ->
             \A i \in 1..Len(f.filters) : Matches(f.filters[i], doc)

\* the fields the clauses of a filter are about
RECURSIVE FieldsOf(_)
FieldsOf(f) ==
    CASE f.op = "none" -> {}
      [] f.op \in {"range", "exists", "term", "terms"} -> {f.field}
      [] f.op = "bool" ->
             UNION {FieldsOf(f.must_not[i]) : i \in 1..Len(f.must_not)}
      [] f.op \in {"or", "and"} ->
             UNION {FieldsOf(f.filters[i]) : i \in 1..Len(f.filters)}

----------------------------------------------------------------------------
(* Query.  An Elasticsearch query is a record with its name; no query      *)
(* (Python's None) is NoQuery.  A boost is counted in tenths.              *)

NoQuery == [name |-> "none"]

\* the list as Python reads it: the literals "jokes" and "cat" have no
\* comma between them and make one string
FUZZY_CONFOUNDERS ==
    << <<"b", "a", "s", "e", "b", "a", "l", "l">>,
       <<"b", "a", "s", "k", "e", "t", "b", "a", "l", "l">>,
       <<"s", "o", "c", "c", "e", "r">>,
       <<"f", "o", "o", "t", "b", "a", "l", "l">>,
       <<"s", "o", "f", "t", "b", "a", "l", "l">>,
       <<"s", "o", "f", "t", "w", "a", "r", "e">>,
       <<"p", "o", "s", "t", "w", "a", "r">>,
       <<"t", "e", "n", "n", "i", "s">>,
       <<"h", "a", "m", "l", "e", "t">>,
       <<"h", "a", "r", "l", "e", "m">>,
       <<"a", "m", "u", "l", "e", "t">>,
       <<"t", "a", "b", "l", "e", "t">>,
       <<"b", "i", "o", "l", "o", "g", "y">>,
       <<"e", "c", "o", "l", "o", "g", "y">>,
       <<"z", "o", "o", "l", "o", "g", "y">>,
       <<"g", "e", "o", "l", "o", "g", "y">>,
       <<"j", "o", "k", "e">>,
       <<"j", "o", "k", "e", "s", "c", "a", "t">>,
       <<"c", "a", "t", "s">>,
       <<"c", "a", "r">>,
       <<"c", "a", "r", "s">>,
       <<"w", "a", "r">>,
       <<"w", "a", "r", "s">>,
       <<"a", "w", "a", "y">>,
       <<"s", "t", "a", "y">> >>

\* \w of a regular expression
IsWordChar(c) ==
    \/ \E i \in 1..Len(LowerLetters) : LowerLetters[i] = LowerChar(c)
    \/ IsDigit(c)
    \/ c = "_"

\* \b between the characters i and i + 1 of s
WordBoundary(s, i) ==
    (i >= 1 /\ IsWordChar(s[i])) # (i < Len(s) /\ IsWordChar(s[i + 1]))

\* re.compile(r'\b(word)\b', re.I).search(s)
SearchWord(s, word) ==
    \E i \in 0..(Len(s) - Len(word)) :
        /\ Lower(SubSeq(s, i + 1, i + Len(word))) = Lower(word)
        /\ WordBoundary(s, i)
        /\ WordBoundary(s, i + Len(word))

\* FUZZY_CIRCUIT_BREAKER.search(query_string)
FUZZY_CIRCUIT_BREAKER(query_string) ==
    \E k \in 1..Len(FUZZY_CONFOUNDERS) :
        SearchWord(query_string, FUZZY_CONFOUNDERS[k])

fuzzy_string_query(query_string) ==
    IF FUZZY_CIRCUIT_BREAKER(query_string) THEN NoQuery
    ELSE [name |-> "multi_match", query |-> query_string]

\* _boost(boost, queries)
_boost(boost, queries) ==
    [name |-> "bool", boost |-> boost, should |-> queries]

\* _hypothesize(hypotheses, query, boost); queries is the list _boost
\* makes of query
_hypothesize(hypotheses, queries, boost) ==
    IF boost > 10 THEN Append(hypotheses, _boost(boost, queries))
    ELSE Append(hypotheses, queries[1])

_match_phrase(field, query_string) ==
    [name |-> "match_phrase", field |-> field, query |-> query_string]

\* Query.query(); with_field_matches is what _query_with_field_matches
\* returned
query(query_string, with_field_matches) ==
    LET simple == [name |-> "simple_query_string", query |-> query_string]
        h1 == _hypothesize(<<>>, <<simple>>, 15)
        h2 == _hypothesize(h1,
                  <<_match_phrase("title.minimal", query_string),
                    _match_phrase("author", query_string),
                    _match_phrase("series.minimal", query_string)>>, 1000)
        h3 == _hypothesize(h2,
                  <<_match_phrase("title.standard", query_string)>>, 2000)
        h4 == _hypothesize(h3,
                  <<_match_phrase("author.standard", query_string)>>, 2000)
        fuzzy == fuzzy_string_query(query_string)
        h5 == IF fuzzy.name # "none" THEN _hypothesize(h4, <<fuzzy>>, 10)
              ELSE h4
        h6 == IF with_field_matches.name # "none"
              THEN _hypothesize(h5, <<with_field_matches>>, 15)
              ELSE h5
    IN  [name |-> "dis_max", queries |-> h6]

\* str.strip()
Strip(s) ==
    LET kept == {i \in 1..Len(s) : s[i] # " "}
    IN  IF kept = {} THEN <<>>
        ELSE SubSeq(s, CHOOSE i \in kept : \A j \in kept : i <= j,
                       CHOOSE i \in kept : \A j \in kept : j <= i)

\* the controlled vocabulary of the classifiers: the keywords of
\* KeywordBasedClassifier (genres, audiences), of GradeLevelClassifier and
\* of AgeClassifier, each with the value it stands for
VOCABULARY ==
    [genre |->
         << [keyword |-> <<"s", "c", "i", "e", "n", "c", "e", " ", "f", "i", "c", "t", "i", "o", "n">>,
             value |-> <<"S", "c", "i", "e", "n", "c", "e", " ", "F", "i", "c", "t", "i", "o", "n">>],
            [keyword |-> <<"r", "o", "m", "a", "n", "c", "e">>,
             value |-> <<"R", "o", "m", "a", "n", "c", "e">>] >>,
     audience |->
         << [keyword |-> <<"y", "o", "u", "n", "g", " ", "a", "d", "u", "l", "t">>,
             value |-> <<"Y", "o", "u", "n", "g", " ", "A", "d", "u", "l", "t">>] >>,
     grade |->
         << [keyword |-> <<"g", "r", "a", "d", "e", " ", "5">>,
             value |-> TargetAgeTuple(10, 10)] >>,
     age |->
         << [keyword |-> <<"a", "g", "e", " ", "1", "0", " ", "a", "n", "d", " ", "u", "p">>,
             value |-> TargetAgeTuple(10, NoAge)],
            [keyword |-> <<"a", "l", "l", " ", "a", "g", "e", "s">>,
             value |-> TargetAgeTuple(NoAge, NoAge)] >>]

\* genre_match, audience_match and target_age_match of the classifiers: the
\* value of the first keyword found as whole words in query_string, with
\* the exact substring that matched it; found is FALSE for (None, None)
classifier_match(kind, query_string) ==
    LET entries == VOCABULARY[kind]
        hits == {k \in 1..Len(entries) :
                     SearchWord(query_string, entries[k].keyword)}
    IN  IF hits = {} THEN [found |-> FALSE]
        ELSE LET k == CHOOSE h \in hits : \A g \in hits : h <= g
                 n == Len(entries[k].keyword)
                 at == {i \in 0..(Len(query_string) - n) :
                            /\ Lower(SubSeq(query_string, i + 1, i + n)) =
                                   Lower(entries[k].keyword)
                            /\ WordBoundary(query_string, i)
                            /\ WordBoundary(query_string, i + n)}
                 i == CHOOSE a \in at : \A b \in at : a <= b
             IN  [found |-> TRUE, value |-> entries[k].value,
                  match |-> SubSeq(query_string, i + 1, i + n)]

\* [\w'\-]
IsSuffixChar(c) == IsWordChar(c) \/ c = "'" \/ c = "-"

without_match_keeping_the_text(query_string, match) == query_string

RECURSIVE sub(_, _, _)
\* re.compile(r"\b%s[\w'\-]*\b" % match, re.IGNORECASE).sub("", ...): the
\* text of query_string after its first i characters, without the matches
\* of the pattern.  A match takes the longest run of suffix characters that
\* ends at a word boundary.
sub(query_string, match, i) ==
    IF i >= Len(query_string) THEN <<>>
    ELSE LET n == Len(match)
             ends == {k \in (i + n)..Len(query_string) :
                          /\ \A j \in (i + n + 1)..k :
                                 IsSuffixChar(query_string[j])
                          /\ WordBoundary(query_string, k)}
         IN  IF /\ i + n <= Len(query_string)
                /\ WordBoundary(query_string, i)
                /\ Lower(SubSeq(query_string, i + 1, i + n)) = Lower(match)
                /\ ends # {}
             THEN sub(query_string, match,
                      CHOOSE k \in ends : \A m \in ends : m <= k)
             ELSE <<query_string[i + 1]>> \o sub(query_string, match, i + 1)

\* without_match(query_string, match) of _query_with_field_matches
without_match(query_string, match) == sub(query_string, Strip(match), 0)

_match(field, query_string) ==
    [name |-> "match", field |-> field, query |-> query_string]

\* make_target_age_query(target_age, boost)
make_target_age_query(target_age, boost) ==
    [name |-> "bool",
     must |-> <<_match_op("target_age.upper", "gte", target_age.lower),
                _match_op("target_age.lower", "lte", target_age.upper)>>,
     should |-> <<_match_op("target_age.upper", "lte", target_age.upper),
                  _match_op("target_age.lower", "gte", target_age.lower)>>,
     boost |-> boost]

\* simple_query_string_query(query_string, fields)
simple_query_string_query(query_string, fields) ==
    [name |-> "simple_query_string", query |-> query_string,
     fields |-> fields]

\* add_match_query and add_target_age_query of _query_with_field_matches:
\* found is the truth of the query argument, q is [match_queries,
\* query_string] before the call, and the result is q after it
add_match_query(q, found, match_query, matched_portion) ==
    IF ~found THEN q
    ELSE [match_queries |-> Append(q.match_queries, match_query),
          query_string |-> without_match(q.query_string, matched_portion)]

\* Query._query_with_field_matches(query_string); matched tells which of
\* the five steps added a match query
_query_with_field_matches(original_query_string) ==
    LET q0 == [match_queries |-> <<>>,
               query_string |-> original_query_string]
        genre == classifier_match("genre", q0.query_string)
        q1 == IF genre.found
              THEN add_match_query(q0, TRUE,
                       _match("genres.name", genre.value), genre.match)
              ELSE q0
        audience == classifier_match("audience", q1.query_string)
        q2 == IF audience.found
              THEN add_match_query(q1, TRUE,
                       _match("audience",
                              SelectSeq(audience.value,
                                        LAMBDA c : c # " ")),
                       audience.match)
              ELSE q1
        fiction ==
            IF SearchWord(q2.query_string, <<"n", "o", "n", "f", "i", "c", "t", "i", "o", "n">>)
            THEN <<"N", "o", "n", "f", "i", "c", "t", "i", "o", "n">>
            ELSE IF SearchWord(q2.query_string, <<"f", "i", "c", "t", "i", "o", "n">>)
                 THEN <<"F", "i", "c", "t", "i", "o", "n">>
                 ELSE None
        q3 == add_match_query(q2, fiction # None, _match("fiction", fiction),
                              fiction)
        grade == classifier_match("grade", q3.query_string)
        age_from_grade == grade.found /\ grade.value.lower # NoAge
        q4 == IF age_from_grade
              THEN add_match_query(q3, TRUE,
                       make_target_age_query(grade.value, 400), grade.match)
              ELSE q3
        found == classifier_match("age", q4.query_string)
        age == found.found /\ found.value.lower # NoAge
        q5 == IF age
              THEN add_match_query(q4, TRUE,
                       make_target_age_query(found.value, 400), found.match)
              ELSE q4
        match_queries ==
            IF Len(Strip(q5.query_string)) > 0
            THEN Append(q5.match_queries,
                        simple_query_string_query(
                            Strip(q5.query_string),
                            <<"author^4", "subtitle^3", "summary^5",
                              "title^1", "series^1">>))
            ELSE q5.match_queries
    IN  [matched |-> <<genre.found, audience.found, fiction # None,
                       age_from_grade, age>>,
         query_string |-> q5.query_string,
         result |-> IF q5.query_string = original_query_string THEN NoQuery
                    ELSE [name |-> "bool", must |-> match_queries,
                          boost |-> 2000]]

----------------------------------------------------------------------------
(* The state machine of index and alias management                         *)

\* the number of works of the catalog
MaxWork == 2

WorkIds == 1..MaxWork

\* the documents an index that exists at the start holds
InitialDocs == {[_id |-> 1, title |-> <<"a">>]}

\* an index that exists at the start was created by the release its name
\* names, with the body of that version
InitialBodies(existing) ==
    [i \in IndexNames |->
        IF i \in existing
        THEN CHOOSE v \in Range(VERSIONS) : EndsWith(i, v)
        ELSE None]

\* one process calls the facade: no process is in the middle of a call
NoProcs == <<>>

\* the catalog does not matter to index and alias management
InitialCatalog ==
    [w \in WorkIds |-> [presentation_ready |-> TRUE,
                        presentation_edition |-> TRUE,
                        title |-> <<"a">>,
                        coverage |-> "success"]]

\* the version arguments of create_new_version: absent, 'v2', '2', 'v3'
VersionArgs == {None, <<"v", "2">>, <<"2">>, <<"v", "3">>}

\* the works_index arguments of the constructor: absent, or an older index
WorksIndexArgs == {None, works_prefixed(VERSIONS[1])}

Cur ==
    [indices |-> indices, alias |-> alias, docs |-> docs, bodies |-> bodies,
     works_index |-> works_index, works_alias |-> works_alias,
     raised |-> FALSE, calls |-> <<>>]

\* The backend's answers are drawn once each: an answer other than the
\* plain one is drawn only for a call the facade makes.
Answered(s, delete_outcome, put_outcome) ==
    /\ delete_outcome # "ok" => "delete_alias" \in Range(s.calls)
    /\ put_outcome # "acknowledged" => "put_alias" \in Range(s.calls)

Install(s) ==
    /\ indices' = s.indices
    /\ alias' = s.alias
    /\ docs' = s.docs
    /\ bodies' = s.bodies
    /\ works_index' = s.works_index
    /\ works_alias' = s.works_alias

\* any backend: some indices exist, and the alias is on any of them; no
\* facade has been constructed
Init ==
    /\ indices \in SUBSET IndexNames
    /\ alias \in SUBSET indices
    /\ docs = [i \in IndexNames |-> IF i \in indices THEN InitialDocs ELSE {}]
    /\ bodies = InitialBodies(indices)
    /\ works_index = None
    /\ works_alias = None
    /\ catalog = InitialCatalog
    /\ procs = NoProcs
    /\ last = [op |-> "none"]

Construct ==
    \E url_given \in BOOLEAN, works_index_arg \in WorksIndexArgs,
       put_outcome \in PutAliasOutcomes :
        LET s == init(Cur, url_given, works_index_arg, put_outcome)
        IN  /\ Answered(s, "ok", put_outcome)
            /\ Install(s)
            /\ last' = [op |-> "init", url_given |-> url_given,
                        works_index |-> works_index_arg,
                        calls |-> s.calls,
                        put_outcome |-> put_outcome, raised |-> s.raised]
            /\ UNCHANGED <<catalog, procs>>

TransferCurrentAlias ==
    \E new_index \in IndexNames, delete_outcome \in DeleteAliasOutcomes,
       put_outcome \in PutAliasOutcomes :
        LET s == transfer_current_alias(Cur, new_index, delete_outcome,
                                        put_outcome)
        IN  /\ Answered(s, delete_outcome, put_outcome)
            /\ Install(s)
            /\ last' = [op |-> "transfer_current_alias",
                        new_index |-> new_index,
                        calls |-> s.calls,
                        delete_outcome |-> delete_outcome,
                        put_outcome |-> put_outcome, raised |-> s.raised]
            /\ UNCHANGED <<catalog, procs>>

CreateNewVersion ==
    \E base \in {ConfiguredPrefix, OtherPrefix}, version \in VersionArgs :
        LET r == create_new_version(Cur, base, version)
        IN  /\ Install(r.state)
            /\ last' = [op |-> "create_new_version", base |-> base,
                        version |-> version, created |-> r.created,
                        raised |-> r.state.raised]
            /\ UNCHANGED <<catalog, procs>>

SetupIndex ==
    \E new_index \in IndexNames \cup {None} :
        LET s == setup_index(Cur, new_index)
        IN  /\ Install(s)
            /\ last' = [op |-> "setup_index", new_index |-> new_index,
                        raised |-> s.raised]
            /\ UNCHANGED <<catalog, procs>>

\* the arguments of query_works: a query string, with or without a Filter,
\* a page, with or without debugging
QueryStrings == {<<"c", "a", "t">>, <<"w", "a", "r", "s">>}

Pages == {[offset |-> 0, size |-> 1], [offset |-> 1, size |-> 2]}

Backends == {"up", "down"}

QueryWorks ==
    \E query_string \in QueryStrings, filter \in BOOLEAN, pagination \in Pages,
       debug \in BOOLEAN, backend \in Backends :
        LET r == query_works(Cur, query_string, filter, pagination, debug,
                             backend)
        IN  /\ Install(r.state)
            /\ last' = [op |-> "query_works", query_string |-> query_string,
                        filter |-> filter, pagination |-> pagination,
                        debug |-> debug, backend |-> backend,
                        result |-> r.result, requests |-> r.requests,
                        raised |-> r.state.raised]
            /\ UNCHANGED <<catalog, procs>>

Next ==
    \/ Construct
    \/ TransferCurrentAlias
    \/ CreateNewVersion
    \/ SetupIndex
    \/ QueryWorks

Spec == Init /\ [][Next]_vars

TypeOK ==
    /\ indices \subseteq IndexNames
    /\ alias \subseteq indices
    /\ works_index \in IndexNames \cup {None}
    /\ works_alias \in IndexNames \cup {None, works_alias_name}

----------------------------------------------------------------------------
(* The state machine of bulk synchronisation: a constructed facade on its  *)
(* index, a catalog of works, and calls of bulk_update and remove_work     *)

WorkStates ==
    [presentation_ready : BOOLEAN, presentation_edition : BOOLEAN,
     title : Titles, coverage : CoverageStatuses]

\* the batches: the lists of distinct works
Batches ==
    {b \in UNION {[1..n -> WorkIds] : n \in 0..MaxWork} :
        \A i, j \in 1..Len(b) : i # j => b[i] # b[j]}

\* the state a facade constructed on an empty backend leaves, with any
\* catalog and any documents in the index
InitBulk ==
    /\ indices = {works_index_name}
    /\ alias = {works_index_name}
    /\ docs \in {[i \in IndexNames |->
                     IF i = works_index_name
                     THEN {[_id |-> w, title |-> <<"a">>] : w \in d}
                     ELSE {}] :
                 d \in SUBSET WorkIds}
    /\ bodies = InitialBodies(indices)
    /\ works_index = works_index_name
    /\ works_alias = works_alias_name
    /\ catalog \in [WorkIds -> {w \in WorkStates :
                           w.title = <<"a">> /\ w.coverage = "registered"}]
    /\ procs = NoProcs
    /\ last = [op |-> "none"]

\* The backend's answers are drawn once each: a write rejects documents it
\* was sent only, a second write is answered only when the first rejected
\* every document, and the shape of the errors is drawn only when there
\* are errors.
BulkUpdate ==
    \E works \in Batches, shape \in ErrorShapes :
        LET sent == Range(Ids(to_search_documents(
                              catalog, needs_add_of(catalog, works))))
        IN  \E rejected1 \in SUBSET sent, rejected2 \in SUBSET sent :
                /\ rejected1 # sent => rejected2 = {}
                /\ rejected1 \cup rejected2 = {} => shape = "data"
                /\ LET r == bulk_update(
                               Cur, catalog, works, TRUE,
                               <<[rejected |-> rejected1, shape |-> shape],
                                 [rejected |-> rejected2, shape |-> shape]>>)
                   IN  /\ Install(r.state)
                       /\ last' = [op |-> "bulk_update", works |-> works,
                                   shape |-> shape,
                                   successes |-> r.successes,
                                   failures |-> r.failures,
                                   attempts |-> r.attempts]
                       /\ UNCHANGED <<catalog, procs>>

RemoveWork ==
    \E work \in WorkIds :
        /\ Install(remove_work(Cur, work))
        /\ last' = [op |-> "remove_work", work |-> work]
        /\ UNCHANGED <<catalog, procs>>

NextBulk ==
    \/ BulkUpdate
    \/ RemoveWork

SpecBulk == InitBulk /\ [][NextBulk]_vars

----------------------------------------------------------------------------
(* The state machine of the catalog's side of synchronisation: a catalog   *)
(* whose works change their readiness, the SearchIndexMonitor sweeping     *)
(* batches of works, and a SearchIndexCoverageProvider that is run again   *)
(* and again: a run takes the works that need coverage as its batch, then  *)
(* processes the batch and records the results.  procs is the provider:    *)
(* [pc, batch].                                                            *)

\* the answers of the backend to the bulk writes of a batch, drawn as in
\* BulkUpdate
Outcomes(cat, works) ==
    LET sent == Range(Ids(to_search_documents(cat, needs_add_of(cat, works))))
    IN  {o \in {<<[rejected |-> rejected1, shape |-> shape],
                  [rejected |-> rejected2, shape |-> shape]>> :
                    rejected1 \in SUBSET sent, rejected2 \in SUBSET sent,
                    shape \in ErrorShapes} :
            /\ o[1].rejected # sent => o[2].rejected = {}
            /\ o[1].rejected \cup o[2].rejected = {} => o[1].shape = "data"}

Idle == [pc |-> "idle", batch |-> <<>>]

InitCoverage ==
    /\ indices = {works_index_name}
    /\ alias = {works_index_name}
    /\ docs \in {[i \in IndexNames |->
                     IF i = works_index_name
                     THEN {[_id |-> w, title |-> <<"a">>] : w \in d}
                     ELSE {}] :
                 d \in SUBSET WorkIds}
    /\ bodies = InitialBodies(indices)
    /\ works_index = works_index_name
    /\ works_alias = works_alias_name
    /\ catalog \in [WorkIds -> {w \in WorkStates : w.title = <<"a">>}]
    /\ procs = Idle
    /\ last = [op |-> "none"]

SetPresentationReadyBasedOnContent ==
    \E work \in WorkIds, license_pools, title, language \in BOOLEAN :
        /\ catalog' = set_presentation_ready_based_on_content(
                          catalog, work, license_pools, title, language)
        /\ last' = [op |-> "set_presentation_ready_based_on_content",
                    work |-> work]
        /\ UNCHANGED <<indices, alias, docs, bodies, works_index, works_alias,
                       procs>>

\* a sweep of the monitor gives process_batch the works after an offset,
\* by id
MonitorProcessBatch ==
    \E batch \in {b \in Batches : b = Ordered(Range(b))} :
        \E outcomes \in Outcomes(catalog, batch) :
            LET r == monitor_process_batch(Cur, catalog, batch, outcomes)
            IN  /\ Install(r.state)
                /\ catalog' = r.catalog
                /\ last' = [op |-> "monitor_process_batch", works |-> batch,
                            successes |-> r.successes,
                            failures |-> r.failures]
                /\ UNCHANGED procs

RunOnce ==
    /\ procs.pc = "idle"
    /\ items_that_need_coverage(catalog) # <<>>
    /\ procs' = [pc |-> "process_batch",
                 batch |-> items_that_need_coverage(catalog)]
    /\ last' = [op |-> "run_once", works |-> procs'.batch]
    /\ UNCHANGED <<indices, alias, docs, bodies, works_index, works_alias,
                   catalog>>

ProcessBatch ==
    /\ procs.pc = "process_batch"
    /\ \E outcomes \in Outcomes(catalog, procs.batch) :
           LET r == process_batch(Cur, catalog, procs.batch, outcomes)
           IN  /\ Install(r.state)
               /\ catalog' = handle_results(catalog, r.records)
               /\ last' = [op |-> "process_batch", works |-> procs.batch,
                           successes |-> r.successes,
                           failures |-> r.failures,
                           records |-> r.records]
    /\ procs' = Idle

NextCoverage ==
    \/ SetPresentationReadyBasedOnContent
    \/ MonitorProcessBatch
    \/ RunOnce
    \/ ProcessBatch

SpecCoverage == InitCoverage /\ [][NextCoverage]_vars

\* a catalog whose works are ready and synchronised, each with its
\* document in the index
InitProvider ==
    /\ indices = {works_index_name}
    /\ alias = {works_index_name}
    /\ docs = [i \in IndexNames |->
                  IF i = works_index_name
                  THEN {[_id |-> w, title |-> <<"a">>] : w \in WorkIds}
                  ELSE {}]
    /\ bodies = InitialBodies(indices)
    /\ works_index = works_index_name
    /\ works_alias = works_alias_name
    /\ catalog = InitialCatalog
    /\ procs = Idle
    /\ last = [op |-> "none"]

NextProvider ==
    \/ SetPresentationReadyBasedOnContent
    \/ RunOnce
    \/ ProcessBatch

\* the provider alone, its script run again and again: a run is started
\* while works need coverage, and a run that has its batch processes it.
\* ProcessBatch is enabled exactly while pc is "process_batch" and leaves
\* pc "idle", so that the last conjunct is WF_vars(ProcessBatch).
SpecProvider ==
    /\ InitProvider
    /\ [][NextProvider]_vars
    /\ WF_vars(RunOnce)
    /\ []<>(procs.pc = "idle")

----------------------------------------------------------------------------
(* The state machine of concurrent alias management: two processes, each   *)
(* with a facade of its own on the same backend, each in a call of         *)
(* setup_current_alias or of transfer_current_alias.  A step is one        *)
(* request to the backend with the statements up to the next request; the  *)
(* backend answers every request plainly.  A process is                    *)
(* [op, pc, works_index, works_alias, new_index, in_setup, raised].        *)

Procs == {"A", "B"}

\* the indices of the configured series
SeriesIndices ==
    {works_prefixed(VERSIONS[i]) : i \in 1..Len(VERSIONS)}

\* a process at the start of setup_current_alias on a facade whose index
\* is works_index
SetupCall(index) ==
    [op |-> "setup_current_alias", pc |-> "setup_exists_alias",
     works_index |-> index, works_alias |-> None, new_index |-> None,
     in_setup |-> TRUE, raised |-> FALSE]

\* a process at the start of transfer_current_alias(new_index) on a
\* facade whose index is works_index
TransferCall(index, new_index) ==
    [op |-> "transfer_current_alias", pc |-> "transfer_indices_exists",
     works_index |-> index, works_alias |-> None, new_index |-> new_index,
     in_setup |-> FALSE, raised |-> FALSE]

\* the backend has indices of the series, and the alias on at most one of
\* them; the facade of each process is on an index that exists
InitRace ==
    /\ indices \in SUBSET SeriesIndices
    /\ indices # {}
    /\ alias \in SUBSET indices
    /\ Cardinality(alias) <= 1
    /\ docs = [i \in IndexNames |-> IF i \in indices THEN InitialDocs ELSE {}]
    /\ bodies = InitialBodies(indices)
    /\ works_index = None
    /\ works_alias = None
    /\ catalog = InitialCatalog
    /\ procs \in [Procs ->
                     {SetupCall(i) : i \in indices} \cup
                     {TransferCall(i, n) : i \in indices,
                                           n \in SeriesIndices}]
    /\ last = [op |-> "none"]

\* the process p moves on: its record changes, and the step is recorded
Goes(p, step, fields) ==
    /\ procs' = [procs EXCEPT ![p] = fields]
    /\ last' = [op |-> step, proc |-> p]
    /\ UNCHANGED <<indices, docs, bodies, works_index, works_alias, catalog>>

At(p, pc) == procs[p].pc = pc

\* transfer_current_alias: indices.exists(new_index), the comparison of
\* the base names and the assignment of works_index
transfer_indices_exists(p) ==
    /\ At(p, "transfer_indices_exists")
    /\ LET r == procs[p]
           rejected ==
               \/ r.new_index \notin indices
               \/ base_index_name(r.new_index) #
                      base_index_name(r.works_index)
       IN  Goes(p, "transfer_indices_exists",
                IF rejected
                THEN [r EXCEPT !.raised = TRUE, !.pc = "done"]
                ELSE [r EXCEPT !.works_index = r.new_index,
                               !.pc = "transfer_exists_alias"])
    /\ UNCHANGED alias

\* transfer_current_alias: exists_alias(name), and the call of
\* setup_current_alias when there is no alias
transfer_exists_alias(p) ==
    /\ At(p, "transfer_exists_alias")
    /\ LET r == procs[p]
       IN  Goes(p, "transfer_exists_alias",
                IF alias = {}
                THEN [r EXCEPT !.in_setup = TRUE, !.pc = "setup_exists_alias"]
                ELSE [r EXCEPT !.pc = "transfer_get_alias"])
    /\ UNCHANGED alias

\* transfer_current_alias: get_alias(index=works_index, name)
transfer_get_alias(p) ==
    /\ At(p, "transfer_get_alias")
    /\ LET r == procs[p]
       IN  Goes(p, "transfer_get_alias",
                IF r.works_index \notin alias
                THEN [r EXCEPT !.pc = "transfer_delete_alias"]
                ELSE [r EXCEPT !.works_alias = works_alias_name,
                               !.pc = "done"])
    /\ UNCHANGED alias

\* transfer_current_alias: delete_alias(index='_all', name)
transfer_delete_alias(p) ==
    /\ At(p, "transfer_delete_alias")
    /\ alias' = {}
    /\ Goes(p, "transfer_delete_alias",
            [procs[p] EXCEPT !.pc = "transfer_put_alias"])

\* transfer_current_alias: put_alias(index=works_index, name) and the
\* assignment of works_alias
transfer_put_alias(p) ==
    /\ At(p, "transfer_put_alias")
    /\ alias' = alias \cup {procs[p].works_index}
    /\ Goes(p, "transfer_put_alias",
            [procs[p] EXCEPT !.works_alias = works_alias_name,
                             !.pc = "done"])

\* setup_current_alias: exists_alias(name)
setup_exists_alias(p) ==
    /\ At(p, "setup_exists_alias")
    /\ Goes(p, "setup_exists_alias",
            [procs[p] EXCEPT !.pc = IF alias # {}
                                    THEN "setup_exists_on_works_index"
                                    ELSE "setup_put_alias"])
    /\ UNCHANGED alias

\* setup_current_alias: exists_alias(index=works_index, name) and the
\* assignment of works_alias
setup_exists_on_works_index(p) ==
    /\ At(p, "setup_exists_on_works_index")
    /\ LET r == procs[p]
       IN  Goes(p, "setup_exists_on_works_index",
                [r EXCEPT !.works_alias = IF r.works_index \in alias
                                          THEN works_alias_name
                                          ELSE r.works_index,
                          !.pc = "done"])
    /\ UNCHANGED alias

\* setup_current_alias: put_alias(index=works_index, name), acknowledged,
\* and the assignment of works_alias
setup_put_alias(p) ==
    /\ At(p, "setup_put_alias")
    /\ alias' = alias \cup {procs[p].works_index}
    /\ Goes(p, "setup_put_alias",
            [procs[p] EXCEPT !.works_alias = works_alias_name,
                             !.pc = "done"])

NextRace ==
    \E p \in Procs :
        \/ transfer_indices_exists(p)
        \/ transfer_exists_alias(p)
        \/ transfer_get_alias(p)
        \/ transfer_delete_alias(p)
        \/ transfer_put_alias(p)
        \/ setup_exists_alias(p)
        \/ setup_exists_on_works_index(p)
        \/ setup_put_alias(p)

SpecRace == InitRace /\ [][NextRace]_vars

----------------------------------------------------------------------------
(* The state machine of concurrent synchronisation: two workers, each with *)
(* a facade of its own on the same index, each submitting one work with    *)
(* bulk_update, while the catalog changes the titles of its works.  A step *)
(* of a worker is one bulk write with the statements up to the next: the   *)
(* removal of the works that are not ready and the serialization of the    *)
(* others, then the bulk write and, after a write that failed whole, the   *)
(* serialization of the second call.  A worker is                          *)
(* [pc, works, documents, retry_on_batch_failure].                         *)

IdleWorker ==
    [pc |-> "idle", works |-> <<>>, documents |-> <<>>,
     retry_on_batch_failure |-> TRUE]

\* the documents of the works, each with the index it goes to
Serialized(works) ==
    LET found == to_search_documents(catalog, needs_add_of(catalog, works))
    IN  [i \in 1..Len(found) |->
            [_id |-> found[i]._id, title |-> found[i].title,
             _index |-> works_index]]

\* an empty index, and a catalog whose works are ready and registered for
\* the search index
InitSync ==
    /\ indices = {works_index_name}
    /\ alias = {works_index_name}
    /\ docs = [i \in IndexNames |-> {}]
    /\ bodies = InitialBodies(indices)
    /\ works_index = works_index_name
    /\ works_alias = works_alias_name
    /\ catalog = [w \in WorkIds |->
                     [InitialCatalog[w] EXCEPT !.coverage = "registered"]]
    /\ procs = [k \in Procs |-> IdleWorker]
    /\ last = [op |-> "none"]

\* Work.calculate_presentation finds a new title for the work
CalculatePresentation ==
    \E work \in WorkIds, title \in Titles :
        /\ title # catalog[work].title
        /\ catalog' = external_index_needs_updating(
                          [catalog EXCEPT ![work].title = title], work)
        /\ last' = [op |-> "calculate_presentation", work |-> work]
        /\ UNCHANGED <<indices, alias, docs, bodies, works_index, works_alias,
                       procs>>

\* a worker calls bulk_update with one work
StartBulkUpdate ==
    \E k \in Procs, works \in {b \in Batches : Len(b) = 1} :
        /\ procs[k].pc = "idle"
        /\ Install(remove_works(Cur, not_ready_of(catalog, works)))
        /\ procs' = [procs EXCEPT ![k] =
                        [pc |-> "bulk", works |-> works,
                         documents |-> Serialized(works),
                         retry_on_batch_failure |-> TRUE]]
        /\ last' = [op |-> "bulk_update", worker |-> k, works |-> works]
        /\ UNCHANGED catalog

\* the worker's bulk write; replaced are the documents the index had for
\* the ids of the documents written
Bulk ==
    \E k \in Procs :
        /\ procs[k].pc = "bulk"
        /\ \E rejected \in SUBSET Range(Ids(procs[k].documents)) :
               LET r == bulk(Cur, procs[k].documents, rejected, "data")
                   works == needs_add_of(catalog, procs[k].works)
                   written == {d \in Range(procs[k].documents) :
                                  d._id \notin rejected}
               IN  /\ Install(r.state)
                   /\ procs' = [procs EXCEPT ![k] =
                         IF /\ batch_failed(r.errors, procs[k].documents)
                            /\ procs[k].retry_on_batch_failure
                         THEN [pc |-> "bulk", works |-> works,
                               documents |-> Serialized(works),
                               retry_on_batch_failure |-> FALSE]
                         ELSE IdleWorker]
                   /\ last' = [op |-> "bulk", worker |-> k,
                               written |-> {[_id |-> d._id, title |-> d.title] :
                                               d \in written},
                               replaced |-> {d \in docs[works_index] :
                                   d._id \in DocIds(written)}]
        /\ UNCHANGED catalog

NextSync ==
    \/ CalculatePresentation
    \/ StartBulkUpdate
    \/ Bulk

SpecSync == InitSync /\ [][NextSync]_vars

----------------------------------------------------------------------------
(* The state machine of searching: the Filters and Queries that are built. *)
(* Nothing is asked of the backend; each step builds a filter or a query   *)
(* from its arguments and records it.                                      *)

\* the greatest age of the model
MaxAge == 2

Ages == 0..MaxAge

AgesOrNone == Ages \cup {NoAge}

\* the target_age arguments of Filter: None, an int, a pair of bounds
TargetAgeArgs ==
    {NoTargetAge} \cup {TargetAgeInt(n) : n \in Ages} \cup
    {TargetAgeTuple(lower, upper) : lower \in AgesOrNone,
                                    upper \in AgesOrNone}

\* the arguments of Filter that are ids: None, no ids, some ids
IdArgs == {NoneList, ListOf(<<>>), ListOf(<<1>>)}

\* the arguments of Filter that are restriction sets: None, no set, a set
\* without ids, a set that is None, sets with ids
RestrictionSetArgs ==
    {NoneList, ListOf(<<>>), ListOf(<<ListOf(<<>>)>>), ListOf(<<NoneList>>),
     ListOf(<<ListOf(<<1>>)>>), ListOf(<<ListOf(<<1>>), ListOf(<<2>>)>>)}

MediaArgs == {NoneList, ListOf(<<<<"B", "o", "o", "k">>>>)}

LanguageArgs == {NoneList, ListOf(<<<<"e", "n", "g">>>>)}

AudienceArgs == {NoneList, ListOf(<<<<"Y", "o", "u", "n", "g", " ", "A", "d", "u", "l", "t">>>>)}

FictionArgs == {"None", "True", "False"}

\* the query strings
QueryArgs ==
    { <<"c", "a", "t">>,
      <<"C", "a", "t">>,
      <<"j", "o", "k", "e", "s">>,
      <<"a", " ", "c", "a", "t", " ", "s", "a", "t">>,
      <<"w", "a", "r">>,
      <<"W", "A", "R">>,
      <<"w", "a", "r", "s">>,
      <<"w", "a", "r", "t", "i", "m", "e">>,
      <<"p", "o", "s", "t", "w", "a", "r">>,
      <<"s", "o", "c", "c", "e", "r">>,
      <<"B", "a", "s", "e", "b", "a", "l", "l">>,
      <<"j", "o", "k", "e", "s", "c", "a", "t">>,
      <<"d", "o", "g">>,
      <<"h", "a", "r", "r", "y", " ", "p", "o", "t", "t", "e", "r">> }

\* what _query_with_field_matches returns: None, or a query of its matches
FieldMatches ==
    {NoQuery, [name |-> "bool", boost |-> 2000, must |-> <<>>]}

InitSearch ==
    /\ indices = {works_index_name}
    /\ alias = {works_index_name}
    /\ docs = [i \in IndexNames |-> {}]
    /\ bodies = InitialBodies(indices)
    /\ works_index = works_index_name
    /\ works_alias = works_alias_name
    /\ catalog = InitialCatalog
    /\ procs = NoProcs
    /\ last = [op |-> "none"]

\* one filter or query is built in a run
Built(record) ==
    /\ last.op = "none"
    /\ last' = record
    /\ UNCHANGED <<indices, alias, docs, bodies, works_index, works_alias,
                   catalog, procs>>

\* Filter(target_age=...).target_age_filter
FilterTargetAgeFilter ==
    \E target_age \in TargetAgeArgs :
        LET self == Filter([collections |-> NoneList, media |-> NoneList,
                            languages |-> NoneList, fiction |-> "None",
                            audiences |-> NoneList,
                            target_age |-> target_age,
                            genre_restriction_sets |-> NoneList,
                            customlist_restriction_sets |-> NoneList])
        IN  Built([op |-> "target_age_filter", arg |-> target_age,
                   target_age |-> self.target_age,
                   filter |-> target_age_filter(self)])

\* Filter(...).build()
FilterBuild ==
    \E collections \in IdArgs, media \in MediaArgs,
       languages \in LanguageArgs, fiction \in FictionArgs,
       audiences \in AudienceArgs,
       target_age \in {NoTargetAge, TargetAgeTuple(1, 2)},
       genre_restriction_sets \in RestrictionSetArgs,
       customlist_restriction_sets \in RestrictionSetArgs :
        LET args == [collections |-> collections, media |-> media,
                     languages |-> languages, fiction |-> fiction,
                     audiences |-> audiences, target_age |-> target_age,
                     genre_restriction_sets |-> genre_restriction_sets,
                     customlist_restriction_sets |->
                         customlist_restriction_sets]
        IN  Built([op |-> "build", args |-> args,
                   filter |-> build(Filter(args))])

\* Query(query_string).query()
QueryQuery ==
    \E query_string \in QueryArgs, with_field_matches \in FieldMatches :
        Built([op |-> "query", query_string |-> query_string,
               fuzzy |-> fuzzy_string_query(query_string),
               query |-> query(query_string, with_field_matches)])

\* the query strings of _query_with_field_matches
FieldMatchArgs ==
    {<<>>,
      <<"h", "a", "r", "r", "y", " ", "p", "o", "t", "t", "e", "r">>,
      <<"r", "o", "m", "a", "n", "c", "e", "s">>,
      <<"b", "o", "o", "k", "s", " ", "f", "o", "r", " ", "a", "l", "l",
        " ", "a", "g", "e", "s">>,
      <<"y", "o", "u", "n", "g", " ", "a", "d", "u", "l", "t", " ", "r",
        "o", "m", "a", "n", "c", "e">>,
      <<"a", "s", "t", "e", "r", "o", "i", "d", "s", " ", "n", "o", "n",
        "f", "i", "c", "t", "i", "o", "n">>,
      <<"s", "c", "i", "e", "n", "c", "e", " ", "f", "i", "c", "t", "i",
        "o", "n">>,
      <<"S", "c", "i", "e", "n", "c", "e", " ", "F", "i", "c", "t", "i",
        "o", "n", " ", "r", "o", "b", "o", "t", "s">>,
      <<"r", "o", "m", "a", "n", "c", "e", "'", "s", " ", "e", "n", "d">>,
      <<"r", "o", "m", "a", "n", "c", "e", "-">>,
      <<"R", "O", "M", "A", "N", "C", "E", " ", "r", "o", "m", "a", "n",
        "c", "e">>,
      <<"f", "i", "c", "t", "i", "o", "n">>,
      <<"d", "o", "g", "s", " ", "g", "r", "a", "d", "e", " ", "5">>,
      <<"d", "i", "v", "o", "r", "c", "e", " ", "a", "g", "e", " ", "1",
        "0", " ", "a", "n", "d", " ", "u", "p">>,
      <<"y", "o", "u", "n", "g", " ", "a", "d", "u", "l", "t", " ", "n",
        "o", "n", "f", "i", "c", "t", "i", "o", "n", " ", "g", "r", "a",
        "d", "e", " ", "5", " ", "a", "g", "e", " ", "1", "0", " ", "a",
        "n", "d", " ", "u", "p">> }

\* Query(query_string)._query_with_field_matches(query_string)
QueryWithFieldMatches ==
    \E query_string \in FieldMatchArgs :
        LET call == _query_with_field_matches(query_string)
        IN  Built([op |-> "_query_with_field_matches",
                   query_string |-> query_string,
                   matched |-> call.matched,
                   remainder |-> call.query_string,
                   result |-> call.result])

\* the prefixes an index name is made of, and the numbers of its versions
Prefixes == {ConfiguredPrefix, OtherPrefix, <<"c", "-", "w">>}

VersionNumbers == {2, 3, 10}

\* '{prefix}-v{n}' and '{prefix}-current'
IndexNamed(prefix, n) == prefix \o <<"-", "v">> \o IntToStr(n)

AliasNamed(prefix) == prefix \o <<"-">> \o CURRENT_ALIAS_SUFFIX

\* base_index_name of two indices of a prefix, of its alias, and of an
\* index of another prefix
BaseIndexName ==
    \E prefix \in Prefixes, other_prefix \in Prefixes,
       n \in VersionNumbers, m \in VersionNumbers :
        Built([op |-> "base_index_name", prefix |-> prefix,
               other_prefix |-> other_prefix, n |-> n, m |-> m,
               of_index |-> base_index_name(IndexNamed(prefix, n)),
               of_other_version |-> base_index_name(IndexNamed(prefix, m)),
               of_alias |-> base_index_name(AliasNamed(prefix)),
               of_other_prefix |->
                   base_index_name(IndexNamed(other_prefix, m))])

NextSearch ==
    \/ FilterTargetAgeFilter
    \/ FilterBuild
    \/ QueryQuery
    \/ QueryWithFieldMatches
    \/ BaseIndexName

SpecSearch == InitSearch /\ [][NextSearch]_vars

----------------------------------------------------------------------------
(* Credential: the tokens of one data source and one type.  The table has  *)
(* at most one credential for a patron (the unique constraint on data      *)
(* source, patron and type) and none for two patrons with one token (the   *)
(* unique index on data source, type and credential).  A credential is     *)
(* [credential, expires]; the time is in seconds.                          *)

Patrons == {"p", "q"}

\* the values a token can have
Tokens == {<<"t">>, <<"u">>}

\* the patron has no credential
NoCredential == [credential |-> None]

\* credential.expires is None
NoExpiry == [never |-> TRUE]

ExpiresAt(time) == [never |-> FALSE, at |-> time]

\* get_one(_db, Credential, data_source, type, credential=token): the
\* patrons whose credential has the token, none or one
get_one(table, token) == {p \in Patrons : table[p].credential = token}

\* lookup_by_token: the patrons of the credential returned, none for None
lookup_by_token(table, utcnow, token, allow_persistent_token) ==
    LET found == get_one(table, token)
    IN  IF found = {} THEN {}
        ELSE LET credential == table[CHOOSE p \in found : TRUE]
             IN  IF credential.expires.never
                 THEN IF allow_persistent_token THEN found ELSE {}
                 ELSE IF credential.expires.at > utcnow THEN found
                 ELSE {}

\* the seconds by which lookup_and_expire_temporary_token sets the expiry
\* back
ExpiredBy == 5

\* lookup_and_expire_temporary_token, leaving the expiry as it was
lookup_and_expire_temporary_token_keeps_expiry(table, utcnow, token) ==
    [table |-> table, result |-> lookup_by_token(table, utcnow, token, FALSE)]

lookup_and_expire_temporary_token(table, utcnow, token) ==
    LET found == lookup_by_token(table, utcnow, token, FALSE)
    IN  [table |-> [p \in Patrons |->
                       IF p \in found
                       THEN [table[p] EXCEPT
                                !.expires = ExpiresAt(utcnow - ExpiredBy)]
                       ELSE table[p]],
         result |-> found]

\* temporary_token_create with the value given, or made by uuid1
temporary_token_create(table, utcnow, patron, duration, value) ==
    [table EXCEPT ![patron] =
        [credential |-> value, expires |-> ExpiresAt(utcnow + duration)]]

\* persistent_token_create: the patron's credential, made with the value
\* of uuid1 if the patron has none, never expires
persistent_token_create(table, patron, uuid1) ==
    [table EXCEPT ![patron] =
        [credential |-> IF table[patron] = NoCredential THEN uuid1
                        ELSE table[patron].credential,
         expires |-> NoExpiry]]

\* The state machine of the tokens: catalog is the table of credentials
\* with the clock, [table, utcnow]; procs is the set of the tokens that
\* lookup_and_expire_temporary_token has returned the credential of, each
\* until a token of its value is created again.

\* the last second of the clock
MaxTime == 2

\* the durations temporary tokens are created for, in seconds
Durations == {1, 2}

InitCredential ==
    /\ indices = {}
    /\ alias = {}
    /\ docs = [i \in IndexNames |-> {}]
    /\ bodies = InitialBodies(indices)
    /\ works_index = None
    /\ works_alias = None
    /\ catalog = [table |-> [p \in Patrons |-> NoCredential], utcnow |-> 0]
    /\ procs = {}
    /\ last = [op |-> "none"]

\* the unique index refuses a value another patron's credential has
TemporaryTokenCreate ==
    \E patron \in Patrons, duration \in Durations, value \in Tokens :
        /\ get_one(catalog.table, value) \subseteq {patron}
        /\ catalog' = [catalog EXCEPT !.table = temporary_token_create(
                          @, catalog.utcnow, patron, duration, value)]
        /\ procs' = procs \ {value}
        /\ last' = [op |-> "temporary_token_create", token |-> value]
        /\ UNCHANGED <<indices, alias, docs, bodies, works_index, works_alias>>

PersistentTokenCreate ==
    \E patron \in Patrons, uuid1 \in Tokens :
        /\ catalog.table[patron] = NoCredential
               => get_one(catalog.table, uuid1) = {}
        /\ catalog' = [catalog EXCEPT !.table =
                          persistent_token_create(@, patron, uuid1)]
        /\ procs' = procs \ {catalog'.table[patron].credential}
        /\ last' = [op |-> "persistent_token_create",
                    token |-> catalog'.table[patron].credential]
        /\ UNCHANGED <<indices, alias, docs, bodies, works_index, works_alias>>

LookupByToken ==
    \E token \in Tokens, allow_persistent_token \in BOOLEAN :
        /\ last' = [op |-> "lookup_by_token", token |-> token,
                    allow_persistent_token |-> allow_persistent_token,
                    spent |-> token \in procs,
                    result |-> lookup_by_token(
                        catalog.table, catalog.utcnow, token,
                        allow_persistent_token)]
        /\ UNCHANGED <<indices, alias, docs, bodies, works_index, works_alias,
                       catalog, procs>>

LookupAndExpireTemporaryToken ==
    \E token \in Tokens :
        LET r == lookup_and_expire_temporary_token(
                     catalog.table, catalog.utcnow, token)
        IN  /\ catalog' = [catalog EXCEPT !.table = r.table]
            /\ procs' = IF r.result # {} THEN procs \cup {token} ELSE procs
            /\ last' = [op |-> "lookup_and_expire_temporary_token",
                        token |-> token, spent |-> token \in procs,
                        result |-> r.result]
            /\ UNCHANGED <<indices, alias, docs, bodies, works_index,
                           works_alias>>

\* a second passes
Tick ==
    /\ catalog.utcnow < MaxTime
    /\ catalog' = [catalog EXCEPT !.utcnow = @ + 1]
    /\ last' = [op |-> "tick"]
    /\ UNCHANGED <<indices, alias, docs, bodies, works_index, works_alias,
                   procs>>

NextCredential ==
    \/ TemporaryTokenCreate
    \/ PersistentTokenCreate
    \/ LookupByToken
    \/ LookupAndExpireTemporaryToken
    \/ Tick

SpecCredential == InitCredential /\ [][NextCredential]_vars


----------------------------------------------------------------------------
(* Index and alias management: properties                                  *)

\* C1: a transfer_current_alias whose new_index does not exist, or whose
\* base name differs from the base name of the active works_index, raises
\* and changes neither the backend's alias and indices nor the facade's
\* works_index and works_alias.
C1_RejectedTransferChangesNothing ==
    [][(/\ last'.op = "transfer_current_alias"
        /\ \/ last'.new_index \notin indices
           \/ /\ works_index # None
              /\ base_index_name(last'.new_index)
                     # base_index_name(works_index))
       => /\ last'.raised
          /\ UNCHANGED <<indices, alias, docs, works_index, works_alias>>]_vars

\* C1 witness: a transfer onto an existing index of another series was
\* rejected while the alias was attached somewhere
C1_Witness ==
    /\ last.op = "transfer_current_alias"
    /\ last.raised
    /\ last.new_index \in indices
    /\ works_index # None
    /\ base_index_name(last.new_index) # base_index_name(works_index)
    /\ alias # {}

\* C2: after transfer_current_alias returns, the alias is on new_index and
\* on no other index, whatever the alias was on before (stated for a backend
\* that acknowledges the alias changes the call asks for).
C2_TransferLeavesAliasOnNewIndexOnly ==
    (/\ last.op = "transfer_current_alias"
     /\ ~last.raised
     /\ last.put_outcome = "acknowledged")
        => alias = {last.new_index}

\* C3: when the constructor's setup_current_alias finds the alias on
\* indices other than works_index, it leaves the alias where it is and the
\* facade searches its own works_index.
C3_ForeignAliasLeftAlone ==
    [][(/\ last'.op = "init"
        /\ (~last'.url_given \/ last'.works_index = None)
        /\ alias # {}
        /\ works_index_name \notin alias)
       => /\ alias' = alias
          /\ last'.calls = <<>>
          /\ works_index' = works_index_name
          /\ works_alias' = works_index']_vars

\* C3 witness: a facade was constructed while the alias was on another index
C3_Witness ==
    /\ last.op = "init"
    /\ ~last.raised
    /\ works_index = works_index_name
    /\ alias # {}
    /\ works_index \notin alias
    /\ works_alias = works_index

\* C4: no call takes the alias from at most one index to several.
C4_AliasStaysOnAtMostOneIndex ==
    [][Cardinality(alias) <= 1 => Cardinality(alias') <= 1]_vars

\* C4 witness: a transfer put the alias on an index other than the latest,
\* and the alias is on that index alone
C4_Witness ==
    /\ last.op = "transfer_current_alias"
    /\ ~last.raised
    /\ last.new_index # works_index_name
    /\ works_alias = works_alias_name
    /\ alias = {last.new_index}

\* the step ran setup_current_alias on a backend without the alias: a
\* construction that resolves its index, or a transfer that passed its
\* checks
SetupCurrentAliasRanWithoutAlias ==
    /\ alias = {}
    /\ \/ /\ last'.op = "init"
          /\ ~last'.url_given \/ last'.works_index = None
       \/ /\ last'.op = "transfer_current_alias"
          /\ last'.new_index \in indices
          /\ works_index # None
          /\ base_index_name(last'.new_index) = base_index_name(works_index)

\* C14: when setup_current_alias runs and the alias does not exist, an
\* acknowledged put_alias leaves the alias on works_index and works_alias
\* the alias name; a put_alias that is not acknowledged does not raise,
\* works_alias is works_index, an index that exists.
C14_AbsentAliasCreatedOrIndexUsed ==
    [][SetupCurrentAliasRanWithoutAlias =>
          /\ last'.put_outcome = "acknowledged" =>
                /\ ~last'.raised
                /\ alias' = {works_index'}
                /\ works_alias' = works_alias_name
          /\ last'.put_outcome \in {"unacknowledged",
                                     "unacknowledged_applied"} =>
                /\ ~last'.raised
                /\ works_index' \in indices'
                /\ works_alias' = works_index']_vars

\* a construction whose put_alias was not acknowledged: the facade uses
\* its index, and the backend has no alias
C14_Witness ==
    /\ last.op = "init"
    /\ last.put_outcome = "unacknowledged"
    /\ ~last.raised
    /\ alias = {}
    /\ works_index \in indices
    /\ works_alias = works_index

\* the step ensured an index: a construction that resolves its index, or
\* a create_new_version
EnsuredAnIndex ==
    \/ /\ last'.op = "init"
       /\ ~last'.url_given \/ last'.works_index = None
    \/ last'.op = "create_new_version"

\* the name of the index the step ensured
EnsuredIndex ==
    IF last'.op = "init" THEN ConfiguredPrefix \o <<"-">> \o latest
    ELSE LET version == IF last'.version = None THEN latest
                        ELSE IF Head(last'.version) = "v" THEN last'.version
                        ELSE <<"v">> \o last'.version
         IN  last'.base \o <<"-">> \o version

\* C15: ensuring an index that exists keeps it (it is still there with the
\* documents and the body it had); ensuring an index that does not exist
\* creates it empty with the latest body; and an index that existed loses
\* its documents or its body only in a step of setup_index.
C15_EnsuringKeepsAnExistingIndex ==
    [][/\ EnsuredAnIndex =>
             /\ EnsuredIndex \in indices'
             /\ IF EnsuredIndex \in indices
                THEN /\ docs'[EnsuredIndex] = docs[EnsuredIndex]
                     /\ bodies'[EnsuredIndex] = bodies[EnsuredIndex]
                ELSE /\ docs'[EnsuredIndex] = {}
                     /\ bodies'[EnsuredIndex] = latest_body
       /\ (\E i \in indices : \/ i \notin indices'
                               \/ docs'[i] # docs[i]
                               \/ bodies'[i] # bodies[i])
             => last'.op = "setup_index"]_vars

\* a construction found its index with documents and an older index
\* beside it, and both still hold their documents and bodies
C15_Witness ==
    /\ last.op = "init"
    /\ works_index = works_index_name
    /\ docs[works_index] = InitialDocs
    /\ bodies[works_index] = latest_body
    /\ \E i \in indices : docs[i] = InitialDocs /\ bodies[i] # latest_body

\* the indices a search on the name in works_alias reads: those the alias
\* is on, or the index of that name
ReadByWorksAlias ==
    IF works_alias = works_alias_name THEN alias
    ELSE indices \cap {works_alias}

\* C28: on a backend whose alias is on at most one index, after a
\* construction that resolved works_alias and after a
\* transfer_current_alias that did not raise, the name in works_alias
\* resolves to the index named by works_index and to no other.
C28_WorksAliasResolvesToWorksIndex ==
    [][(/\ Cardinality(alias) <= 1
        /\ \/ last'.op = "init" /\ works_alias' # None
           \/ last'.op = "transfer_current_alias"
        /\ ~last'.raised)
          => ReadByWorksAlias' = {works_index'}]_vars

\* C29: a construction with a works_index argument that does not raise
\* ends with works_index equal to the argument.
C29_ConstructionKeepsWorksIndexArgument ==
    (last.op = "init" /\ last.works_index # None /\ ~last.raised) =>
        works_index = last.works_index

\* C30: on a facade that has resolved its alias, a transfer_current_alias
\* that passed its checks and whose delete_alias or put_alias fails
\* raises, and leaves works_index and works_alias as they were.
C30_FailedTransferKeepsTheFacade ==
    [][(/\ works_alias # None
        /\ last'.op = "transfer_current_alias"
        /\ last'.calls # <<>>
        /\ \/ last'.delete_outcome = "exception"
           \/ last'.put_outcome = "exception")
          => /\ last'.raised
             /\ works_index' = works_index
             /\ works_alias' = works_alias]_vars

----------------------------------------------------------------------------
(* Bulk synchronisation: properties.  They read the record of the last     *)
(* bulk_update: its batch, the bulk writes it made with the backend's      *)
(* answers, and the successes and failures it returned.                    *)

IsBulkUpdate == last.op = "bulk_update"

\* the bulk write whose result bulk_update reconciled and returned
FinalAttempt == last.attempts[Len(last.attempts)]

\* a write in which the backend rejected every document it was sent
TotalFailure(attempt) == attempt.rejected = Range(attempt.docs)

ReadyWorks == {w \in Range(last.works) : catalog[w].presentation_ready}

NotReadyWorks == {w \in Range(last.works) : ~catalog[w].presentation_ready}

FailedWorks == {last.failures[i][1] : i \in 1..Len(last.failures)}

\* C5: whatever the backend answers, a work that is not presentation-ready
\* is gone from the index, is never serialized nor sent in a bulk write, and
\* is among the returned successes; a presentation-ready work is passed to
\* serialization and its document, if it has one, is sent.
C5_NotReadyRemovedAndReportedSucceeded ==
    IsBulkUpdate =>
        /\ \A w \in NotReadyWorks :
            /\ w \notin DocIds(docs[works_index])
            /\ \A i \in 1..Len(last.attempts) :
                /\ w \notin Range(last.attempts[i].serialized)
                /\ w \notin Range(last.attempts[i].docs)
            /\ w \in Range(last.successes)
        /\ \A w \in ReadyWorks :
            /\ w \in Range(last.attempts[1].serialized)
            /\ catalog[w].presentation_edition
                   => w \in Range(last.attempts[1].docs)

\* C6: bulk_update writes a second time exactly when the backend rejected
\* every document of the first write, and never a third time; a write that
\* is rejected in part is the only one.
C6_SecondWriteIffTotalFailure ==
    IsBulkUpdate =>
        /\ Len(last.attempts) <= 2
        /\ Len(last.attempts) = 2 <=> TotalFailure(last.attempts[1])

\* C6 witness: two documents were rejected, written again and rejected again
C6_Witness ==
    /\ IsBulkUpdate
    /\ Len(last.attempts) = 2
    /\ Len(last.attempts[1].docs) >= 2
    /\ TotalFailure(last.attempts[1])
    /\ TotalFailure(last.attempts[2])

\* C7: when the backend rejects every document of the first write and of
\* the second, there is no third write, no presentation-ready work is among
\* the successes and every presentation-ready work is among the failures.
C7_TwiceRejectedBatchReportedFailed ==
    (/\ IsBulkUpdate
     /\ Len(last.attempts) >= 2
     /\ last.attempts[1].docs # <<>>
     /\ TotalFailure(last.attempts[1])
     /\ TotalFailure(last.attempts[2]))
        => /\ Len(last.attempts) = 2
           /\ \A w \in ReadyWorks :
               /\ w \notin Range(last.successes)
               /\ w \in FailedWorks

\* C8: after a bulk write that is not a total failure, a presentation-ready
\* work is among the successes exactly when its id is among the documents
\* written and the backend sent no error for it.
C8_SuccessIffWrittenWithoutError ==
    (IsBulkUpdate /\ ~TotalFailure(FinalAttempt))
        => \A w \in ReadyWorks :
               w \in Range(last.successes)
                   <=> /\ w \in Range(FinalAttempt.docs)
                       /\ w \notin FinalAttempt.rejected

\* C8 witness: a write rejected in part, after which a work is a success
C8_Witness ==
    /\ IsBulkUpdate
    /\ FinalAttempt.rejected # {}
    /\ ~TotalFailure(FinalAttempt)
    /\ ReadyWorks \cap Range(last.successes) # {}

\* the presentation-ready works serialization gave no document for
DroppedWorks == ReadyWorks \ Range(FinalAttempt.docs)

\* C9: each presentation-ready work that has neither a document nor an error
\* is itself among the failures with the not-indexed reason, and an entry
\* with that reason names such a work.
C9_DroppedWorkReportedItself ==
    IsBulkUpdate =>
        /\ \A w \in DroppedWorks : <<w, WorkNotIndexed>> \in Range(last.failures)
        /\ \A i \in 1..Len(last.failures) :
               last.failures[i][2] = WorkNotIndexed
                   => last.failures[i][1] \in DroppedWorks

\* C10: when the backend rejects documents of the write bulk_update
\* reconciles, the documents it accepted are in the index, and each error
\* has exactly one entry in the failures: the work of the error's id, with
\* the error's message.
C10_RejectionsReportedPerWork ==
    (IsBulkUpdate /\ FinalAttempt.rejected # {})
        => /\ \A id \in Range(FinalAttempt.docs) \ FinalAttempt.rejected :
                  id \in DocIds(docs[works_index])
           /\ \A id \in FinalAttempt.rejected :
                  Cardinality({i \in 1..Len(last.failures) :
                      last.failures[i] = <<id, ErrorMessage(id)>>}) = 1

\* C10 witness: the backend's answer to a write held an error under the
\* name of the operation for one document and accepted another
C10_Witness ==
    /\ IsBulkUpdate
    /\ last.shape = "index"
    /\ FinalAttempt.rejected # {}
    /\ Range(FinalAttempt.docs) \ FinalAttempt.rejected # {}
    /\ Len(last.failures) >= 1

\* the number of entries of the successes, and of the failures, for a work
TimesSucceeded(w) ==
    Cardinality({i \in 1..Len(last.successes) : last.successes[i] = w})

TimesFailed(w) ==
    Cardinality({i \in 1..Len(last.failures) : last.failures[i][1] = w})

\* C27: for every batch of distinct works and every answer of the backend,
\* the successes and the failures partition the batch: each work of the
\* batch has exactly one entry in the two lists together, and every entry
\* of the failures names a work of the batch that is not a success.
C27_SuccessesAndFailuresPartitionTheBatch ==
    IsBulkUpdate =>
        /\ \A w \in Range(last.works) : TimesSucceeded(w) + TimesFailed(w) = 1
        /\ \A i \in 1..Len(last.failures) :
               /\ last.failures[i][1] # NoWork
               /\ last.failures[i][1] \in Range(last.works)
               /\ last.failures[i][1] \notin Range(last.successes)

----------------------------------------------------------------------------
(* Concurrent synchronisation: properties.  They read a bulk write of a    *)
(* worker: the index before and after it, the documents it wrote and the   *)
(* documents the index had for their ids.                                  *)

\* an index holds at most one document for an id
OneDocumentPerId ==
    \A i \in IndexNames :
        \A d1, d2 \in docs[i] : d1._id = d2._id => d1 = d2

\* C24: whatever the two workers submit and in whatever order their writes
\* arrive, the index holds at most one document for a work id; after a
\* bulk write the document of each work written is the one just written,
\* whole, and no other document has changed; and a write of the documents
\* the index already holds leaves the index as it was.
C24_BulkWriteReplacesTheDocumentOfTheWork ==
    [][/\ OneDocumentPerId'
       /\ last'.op = "bulk" =>
              /\ \A d \in last'.written :
                     {e \in docs'[works_index] : e._id = d._id} = {d}
              /\ docs'[works_index]
                     = (docs[works_index] \ last'.replaced) \cup last'.written
              /\ last'.written = last'.replaced => docs' = docs]_vars

\* C24 witness: worker B has written again the document the index held for
\* a work, while worker A has that work's document serialized for a write
\* of its own
C24_Witness ==
    /\ last.op = "bulk"
    /\ last.worker = "B"
    /\ last.written # {}
    /\ last.replaced = last.written
    /\ procs["A"].pc = "bulk"
    /\ Range(Ids(procs["A"].documents)) = DocIds(last.written)

----------------------------------------------------------------------------
(* The catalog's side of synchronisation: properties.  They read a step of *)
(* the monitor or of the provider: the catalog before and after it, and    *)
(* the successes and failures bulk_update returned to it.                  *)

\* the works whose sync marker the step changed
Remarked == {w \in WorkIds : catalog'[w].coverage # catalog[w].coverage}

\* the works the step marked as synchronised
MarkedSynced ==
    {w \in Remarked : catalog'[w].coverage = "success"}

\* C25: a step of SearchIndexMonitor.process_batch changes the sync marker
\* of no work but the successes bulk_update returned and leaves each of
\* them marked as synchronised; SearchIndexCoverageProvider.process_batch
\* returns the successes as works and then a CoverageFailure for each
\* failure; and neither marks a work as synchronised that bulk_update
\* reported as failed.
C25_OnlyReturnedSuccessesAreMarkedSynced ==
    [][/\ last'.op = "monitor_process_batch" =>
              /\ Remarked \subseteq Range(last'.successes)
              /\ \A w \in Range(last'.successes) :
                     catalog'[w].coverage = "success"
       /\ last'.op = "process_batch" =>
              /\ Len(last'.records)
                     = Len(last'.successes) + Len(last'.failures)
              /\ \A i \in 1..Len(last'.successes) :
                     /\ ~last'.records[i].failure
                     /\ last'.records[i].obj = last'.successes[i]
              /\ \A i \in 1..Len(last'.failures) :
                     LET record == last'.records[Len(last'.successes) + i]
                     IN  /\ record.failure
                         /\ record.obj = last'.failures[i][1]
                         /\ record.exception = last'.failures[i][2]
       /\ last'.op \in {"monitor_process_batch", "process_batch"} =>
              \A i \in 1..Len(last'.failures) :
                  last'.failures[i][1] \notin MarkedSynced]_vars

\* set_presentation_ready_based_on_content has just found the work not
\* ready and registered it for the search index
FoundNotReady(w) ==
    /\ last.op = "set_presentation_ready_based_on_content"
    /\ last.work = w
    /\ ~catalog[w].presentation_ready
    /\ catalog[w].coverage = "registered"

\* C26: once set_presentation_ready_based_on_content has set a work not
\* ready and registered it, and the provider is run again and again, the
\* work's document is eventually absent from the index and the work's sync
\* marker is eventually cleared, unless the work is made ready again.
C26_NotReadyWorkEventuallyRemovedAndCleared ==
    \A w \in WorkIds :
        /\ FoundNotReady(w) ~>
               \/ catalog[w].presentation_ready
               \/ w \notin DocIds(docs[works_index])
        /\ FoundNotReady(w) ~>
               \/ catalog[w].presentation_ready
               \/ catalog[w].coverage = "success"

----------------------------------------------------------------------------
(* Queries: properties.  They read the record of the last query_works: its *)
(* arguments, the state of the backend, the search requests it sent, the   *)
(* list it returned and whether it raised.  query_works changes neither    *)
(* the facade nor the backend, so works_alias is the one it ran with.      *)

IsQueryWorks == last.op = "query_works"

\* C11: while works_alias is unset, query_works returns an empty list for
\* every query string, filter and page, whether the backend is up or down:
\* it does not raise and it sends no request to the backend.
C11_UnresolvedQueryReturnsEmptyWithoutRequest ==
    (IsQueryWorks /\ works_alias = None) =>
        /\ last.result = <<>>
        /\ ~last.raised
        /\ last.requests = <<>>

\* an unresolved facade on a backend that has indices and is down answered
\* a query with a filter for its second page
C11_Witness ==
    /\ IsQueryWorks /\ works_alias = None
    /\ indices # {}
    /\ last.backend = "down" /\ last.filter /\ last.pagination.offset > 0
    /\ last.result = <<>> /\ ~last.raised

\* C12: when the backend fails during a query_works on a facade with a
\* resolved alias, query_works returns an empty list and does not raise.
C12_BackendFailureGivesEmptyResult ==
    (IsQueryWorks /\ works_alias # None /\ last.backend = "down") =>
        /\ ~last.raised
        /\ last.result = <<>>

\* the ids of the hits of a search on the name in works_alias, in the
\* positions of the page
PageOnWorksAlias ==
    LET results == Slice(hits_of(Cur, works_alias), last.pagination.offset,
                         last.pagination.offset + last.pagination.size)
    IN  [k \in 1..Len(results) |-> StrToInt(results[k].meta.id)]

\* C13: on a facade with a resolved alias and a backend that answers,
\* query_works sends its search to the name in works_alias and to no other
\* index, and returns the ids of the hits in positions
\* [offset, offset + size), in the backend's order.
C13_SearchRunsOnWorksAliasAndReturnsItsPage ==
    (IsQueryWorks /\ works_alias # None /\ last.backend = "up") =>
        /\ ~last.raised
        /\ \A k \in 1..Len(last.requests) :
               last.requests[k].index = works_alias
        /\ last.result = PageOnWorksAlias

----------------------------------------------------------------------------
(* Concurrent alias management: properties                                 *)

\* the process is moving an alias it found on another index: it is about
\* to delete it, or has deleted it and is about to put it on its index
MovingTheAlias(p) ==
    /\ procs[p].op = "transfer_current_alias"
    /\ procs[p].pc \in {"transfer_delete_alias", "transfer_put_alias"}

\* C16: while a transfer_current_alias moves the alias from another index,
\* the alias is on an index in every state of the backend.
C16_AliasOnAnIndexThroughoutCutover ==
    \A p \in Procs : MovingTheAlias(p) => alias # {}

\* every process has run setup_current_alias, called directly or by
\* transfer_current_alias, and has returned from its call
BothRanSetupCurrentAlias ==
    \A p \in Procs : procs[p].in_setup /\ procs[p].pc = "done"

\* C17: when two processes have run setup_current_alias concurrently,
\* neither has raised and the alias is on at most one index.
C17_ConcurrentSetupLeavesAliasOnAtMostOneIndex ==
    BothRanSetupCurrentAlias =>
        /\ \A p \in Procs : ~procs[p].raised
        /\ Cardinality(alias) <= 1

----------------------------------------------------------------------------
(* Filters and queries: properties                                         *)

\* a document: its collection, its genres and lists, the bounds of its
\* target age (NoAge for a bound it does not store)
Document(collection_id, genres, lists, stored_lower, stored_upper) ==
    [field \in {"collection_id", "medium", "language", "fiction", "audience",
                "genres.term", "list_id", "target_age.lower",
                "target_age.upper"} |->
        CASE field = "collection_id" -> {collection_id}
          [] field = "medium" -> {<<"b", "o", "o", "k">>}
          [] field = "language" -> {<<"e", "n", "g">>}
          [] field = "fiction" -> {<<"f", "i", "c", "t", "i", "o", "n">>}
          [] field = "audience" -> {<<"y", "o", "u", "n", "g", "a", "d", "u", "l", "t">>}
          [] field = "genres.term" -> genres
          [] field = "list_id" -> lists
          [] field = "target_age.lower" ->
                 IF stored_lower = NoAge THEN {} ELSE {stored_lower}
          [] field = "target_age.upper" ->
                 IF stored_upper = NoAge THEN {} ELSE {stored_upper}]

\* the overlap of the stored range with the range asked for, an absent
\* bound on either side bounding nothing
Overlaps(lower, upper, stored_lower, stored_upper) ==
    /\ upper = NoAge \/ stored_lower = NoAge \/ stored_lower <= upper
    /\ lower = NoAge \/ stored_upper = NoAge \/ stored_upper >= lower

\* C18: without a target age, or with both bounds absent, target_age_filter
\* builds no clause; otherwise its filter matches a stored range exactly
\* when (upper absent or stored_lower absent or stored_lower <= upper) and
\* (lower absent or stored_upper absent or stored_upper >= lower): a
\* stored range equal to a range asked for with lower <= upper matches,
\* and a stored range disjoint from it does not.
C18_TargetAgeFilterMatchesOverlappingRanges ==
    last.op = "target_age_filter" =>
        IF last.target_age.kind = "none" THEN last.filter.op = "none"
        ELSE LET lower == last.target_age.lower
                 upper == last.target_age.upper
                 matches(sl, su) ==
                     Matches(last.filter, Document(1, {}, {}, sl, su))
             IN  /\ (lower = NoAge /\ upper = NoAge) =>
                        last.filter.op = "none"
                 /\ \A sl \in AgesOrNone, su \in AgesOrNone :
                        matches(sl, su) <=> Overlaps(lower, upper, sl, su)
                 /\ (lower # NoAge /\ upper # NoAge /\ lower <= upper) =>
                        matches(lower, upper)
                 /\ \A sl \in Ages, su \in Ages :
                        (lower # NoAge /\ upper # NoAge /\ sl <= su
                         /\ (su < lower \/ sl > upper)) =>
                            ~matches(sl, su)

\* a filter for the ages 1 to 2 was built of two clauses; it matches the
\* stored range 2 to 2 and not the stored range 0 to 0
C18_Witness ==
    /\ last.op = "target_age_filter"
    /\ last.target_age.kind = "tuple"
    /\ last.target_age.lower = 1 /\ last.target_age.upper = 2
    /\ last.filter.op = "and"
    /\ Matches(last.filter, Document(1, {}, {}, 2, 2))
    /\ ~Matches(last.filter, Document(1, {}, {}, 0, 0))

\* the documents a built filter is tried on
Documents ==
    {Document(c, g, l, 1, 2) : c \in {1, 2}, g \in SUBSET {1, 2},
                               l \in SUBSET {1, 2}}

\* the argument has a restriction set without ids
HasEmptySet(sets) ==
    \E i \in 1..Len(sets.items) :
        ~sets.items[i].is_none /\ sets.items[i].items = <<>>

\* C19: build adds no clause on the collection for collection ids of None,
\* and none on genres or lists for restriction sets that are None; with
\* collection ids, a genre restriction set or a list restriction set that
\* is empty, the filter it builds matches no document.
C19_NoneAndEmptyIdsKeptApart ==
    last.op = "build" =>
        LET args == last.args
            genres == args.genre_restriction_sets
            lists == args.customlist_restriction_sets
        IN  /\ args.collections.is_none =>
                   "collection_id" \notin FieldsOf(last.filter)
            /\ (genres.is_none \/ \A i \in 1..Len(genres.items) :
                                      genres.items[i].is_none) =>
                   "genres.term" \notin FieldsOf(last.filter)
            /\ (lists.is_none \/ \A i \in 1..Len(lists.items) :
                                     lists.items[i].is_none) =>
                   "list_id" \notin FieldsOf(last.filter)
            /\ (\/ ~args.collections.is_none /\ args.collections.items = <<>>
                \/ HasEmptySet(genres)
                \/ HasEmptySet(lists)) =>
                   \A doc \in Documents : ~Matches(last.filter, doc)

\* the terms of the confounder list that the claim names
NamedConfounders ==
    { <<"b", "a", "s", "e", "b", "a", "l", "l">>,
      <<"s", "o", "c", "c", "e", "r">>,
      <<"j", "o", "k", "e", "s">>,
      <<"c", "a", "t">>,
      <<"w", "a", "r">> }

\* the query has a hypothesis that is the fuzzy query
HasFuzzyHypothesis ==
    \E i \in 1..Len(last.query.queries) :
        last.query.queries[i].name = "multi_match"

\* C20: for a query string with one of the named confounders as a word,
\* in any letter case, fuzzy_string_query returns no query and query()
\* has no fuzzy hypothesis; for a query string with no word of the
\* confounder list, query() has the fuzzy hypothesis.
C20_ConfoundersSuppressFuzzyQuery ==
    last.op = "query" =>
        LET named == \E term \in NamedConfounders :
                         SearchWord(last.query_string, term)
            listed == FUZZY_CIRCUIT_BREAKER(last.query_string)
        IN  /\ named => last.fuzzy.name = "none" /\ ~HasFuzzyHypothesis
            /\ (~named /\ ~listed) =>
                   last.fuzzy.name = "multi_match" /\ HasFuzzyHypothesis

\* C22: base_index_name gives the index p-vN, the index p-vM and the alias
\* p-current the same base name, and gives an index of another prefix
\* another base name.
C22_IndexAndAliasShareTheirBaseName ==
    last.op = "base_index_name" =>
        /\ last.of_index = last.of_other_version
        /\ last.of_index = last.of_alias
        /\ last.prefix # last.other_prefix =>
               last.of_index # last.of_other_prefix

\* the match queries of a field-match query, and whether it ends in a
\* query of the text that is left
IsFieldMatchCall == last.op = "_query_with_field_matches"

StepsMatched == {k \in 1..Len(last.matched) : last.matched[k]}

IsRestOfQuery(match_query) == match_query.name = "simple_query_string"

----------------------------------------------------------------------------
(* Tokens: properties.  They read the record of the last lookup: its       *)
(* token, whether the token was spent when it was made, and the patrons    *)
(* of the credential it returned, none for None.                           *)

IsLookup ==
    last.op \in {"lookup_by_token", "lookup_and_expire_temporary_token"}

\* the token of the last lookup is the token of a credential that never
\* expires
LookedUpPersistentToken ==
    \E p \in get_one(catalog.table, last.token) :
        catalog.table[p].expires.never

====
